---- MODULE Spec2Model ----
(***************************************************************************)
(* Model of the thermal governor of app/server_monitor.py (ServerMonitor). *)
(* Temperatures are whole degrees Celsius, time is whole seconds, and a    *)
(* delay is counted in units of 1/DelayUnitsPerSecond seconds so that the  *)
(* linear interpolation of calculate_adaptive_delay is exact.              *)
(***************************************************************************)
EXTENDS Integers, Sequences, FiniteSets, TLC

\* ---------------------------------------------------------------- constants
CPU_TEMP_WARNING == 70
CPU_TEMP_CRITICAL == 85
GPU_TEMP_WARNING == 75
GPU_TEMP_CRITICAL == 90

NORMAL_CHECK_INTERVAL == 5
WARNING_CHECK_INTERVAL == 2
CRITICAL_CHECK_INTERVAL == 1

\* placeholders of the Windows readers and the sanity bound of the GPU reader
WINDOWS_CPU_PLACEHOLDER == 35
WINDOWS_GPU_PLACEHOLDER == 60
GPU_SANITY_MAX == 150

\* ------------------------------------------------------------------- bounds
\* value of time.time() when the monitor is constructed
StartTime == 10
\* the clock is observed up to StartTime + Horizon
Horizon == 5
\* longest time the two readers block during one re-probe
MaxProbeTime == 1
\* hottest reading a probe step is made to parse
MaxTemp == 150

\* readings a probe can parse: both sides of every threshold
TempReadings ==
    { -5, 0, 50, MaxTemp, CPU_TEMP_WARNING, GPU_TEMP_WARNING,
      CPU_TEMP_CRITICAL - 1, CPU_TEMP_CRITICAL, GPU_TEMP_CRITICAL - 1, GPU_TEMP_CRITICAL }

\* what the fallback chain of one reader comes to: the value parsed by the
\* first step that produced one, no step producing a value, or an exception
\* caught by the reader's outer handler
ProbeOutcomes ==
    [kind : {"value"}, v : TempReadings] \cup [kind : {"fail", "raise"}, v : {0}]

Platforms == {"Linux", "Windows"}

VARIABLES
    platform,         \* platform.system()
    now,              \* time.time()
    last_check_time,  \* ServerMonitor.last_check_time
    check_interval,   \* ServerMonitor.check_interval
    last_cpu_temp,    \* ServerMonitor.last_cpu_temp
    last_gpu_temp,    \* ServerMonitor.last_gpu_temp
    op,               \* the public method called last
    status_info,      \* the sample check_temperature returned to that call
    result,           \* the value that call returned
    probe_calls,      \* reader invocations made by that call: <<cpu, gpu>>
    probed_status     \* status computed by the most recent re-probe

\* the state of ModelSelector (app/model_selector.py) and of its callers
VARIABLES
    text_api_priority,       \* ModelSelector.text_api_priority
    code_api_priority,       \* ModelSelector.code_api_priority
    default_models,          \* ModelSelector.default_models
    api_base_urls,           \* ModelSelector.api_base_urls
    api_availability_cache,  \* ModelSelector.api_availability_cache
    backend_up,              \* whether each backend's endpoint answers 200 now
    probe_count,             \* uncached availability checks run so far, per id
    sel_call,                \* the selector method called last and its arguments
    sel_result,              \* what that call returned, or that it raised
    sel_priority,            \* api_priority as iterated by that call
    sel_visited,             \* the ids that call passed to check_api_availability
    sel_responses            \* the response each probe of that call received

govVars == <<platform, now, last_check_time, check_interval, last_cpu_temp,
             last_gpu_temp, op, status_info, result, probe_calls, probed_status>>

selVars == <<text_api_priority, code_api_priority, default_models, api_base_urls,
             api_availability_cache, backend_up, probe_count, sel_call,
             sel_result, sel_priority, sel_visited, sel_responses>>

\* the remote and local command channel of ServerMonitor
VARIABLES
    ssh_params_set,    \* ssh_host and ssh_user are both non-empty
    ssh_key_is_file,   \* os.path.isfile(ssh_key_path)
    ssh_password_set,  \* ssh_password is non-empty
    client,            \* ServerMonitor.client: 0 for None, else the n-th SSHClient made
    is_connected,      \* ServerMonitor.is_connected
    connect_total,     \* connect() invocations so far
    chan_call,         \* the channel method called last
    chan_ret,          \* the (stdout, stderr) pair that call returned
    chan_raised,       \* whether that call raised instead of returning
    chan_trace         \* what that call did, in order

chanConfig == <<ssh_params_set, ssh_key_is_file, ssh_password_set>>

chanVars == <<ssh_params_set, ssh_key_is_file, ssh_password_set, client,
              is_connected, connect_total, chan_call, chan_ret, chan_raised,
              chan_trace>>

\* what the last check_temperature call did with the fallback chains
VARIABLES
    probe_log   \* whether it probed, what the chains held and what was known before

readerVars == <<probe_log>>

\* what the last call of get_system_load or get_memory_usage did
VARIABLES
    metric_log  \* the method, what it returned and what each last read successfully

metricVars == <<metric_log>>

\* the background thread of start_temperature_monitoring
VARIABLES
    monitoring_interval,  \* the argument of start_temperature_monitoring, in seconds
    loop_pc,              \* where monitoring_task is: not started, check, sleep, ended
    loop_status,          \* what the last iteration's check came to
    sleep_time,           \* the argument of the time.sleep the task is in, in seconds
    loop_checks           \* iterations begun so far, counted up to LoopCap

loopVars == <<monitoring_interval, loop_pc, loop_status, sleep_time, loop_checks>>

\* the capability lookup of ModelSelector
VARIABLES
    model_capabilities_cache,  \* ModelSelector.model_capabilities_cache
    cap_log,                   \* the last get_model_capabilities call and what it did
    cap_first                  \* per (api_type, model_name): what its first call returned

capVars == <<model_capabilities_cache, cap_log, cap_first>>

\* the content classifier called on its own
VARIABLES
    cls_log   \* the text of the last detect_content_type call, what it returned,
              \* and what the call before it returned when the text is the same

clsVars == <<cls_log>>

\* what the last call of get_cpu_temperature on its own did
VARIABLES
    cpu_read_log  \* what each command of the chain gave, the value returned and
                  \* the last-known value before the call

cpuReadVars == <<cpu_read_log>>

\* AssistantManager (app/assistant_manager.py) and its callers
VARIABLES
    message_history,  \* AssistantManager.message_history
    instructions,     \* AssistantManager.instructions
    failed_sends,     \* send_instruction calls so far that stored a message and failed
    asst_log          \* the method called last and how it ended

histVars == <<message_history, instructions, failed_sends, asst_log>>

\* the background monitoring thread and a foreground caller, step by step
VARIABLES
    monitor_global,  \* the module's _monitor: 0 for None, else the n-th ServerMonitor made
    monitors_made,   \* ServerMonitor() constructions so far
    mon,             \* the fields of each ServerMonitor instance
    thr,             \* per thread: where it is and its local variables
    pairs,           \* per instance: the (cpu, gpu) pairs one re-probe has read so far
    thr_sample       \* the sample check_temperature returned last, and from which instance

thrVars == <<monitor_global, monitors_made, mon, thr, pairs, thr_sample>>

lateVars == <<cpuReadVars, histVars, thrVars>>

extVars == <<readerVars, metricVars, loopVars, capVars, clsVars, lateVars>>

nonGovVars == <<selVars, chanVars, extVars>>

vars == <<govVars, selVars, chanVars, extVars>>

\* ------------------------------------------------------------ _get_status
\* variant: the thresholds are compared before the sensor-failure test
get_status_thresholds_first(cpu_temp, gpu_temp) ==
    IF cpu_temp >= CPU_TEMP_CRITICAL \/ gpu_temp >= GPU_TEMP_CRITICAL THEN "critical"
    ELSE IF cpu_temp >= CPU_TEMP_WARNING \/ gpu_temp >= GPU_TEMP_WARNING THEN "warning"
    ELSE IF cpu_temp <= 0 \/ gpu_temp <= 0 THEN "error"
    ELSE "normal"

\* variant: the threshold bounds are exclusive
get_status_exclusive(cpu_temp, gpu_temp) ==
    IF cpu_temp <= 0 \/ gpu_temp <= 0 THEN "error"
    ELSE IF cpu_temp > CPU_TEMP_CRITICAL \/ gpu_temp > GPU_TEMP_CRITICAL THEN "critical"
    ELSE IF cpu_temp > CPU_TEMP_WARNING \/ gpu_temp > GPU_TEMP_WARNING THEN "warning"
    ELSE "normal"

get_status(cpu_temp, gpu_temp) ==
    IF cpu_temp <= 0 \/ gpu_temp <= 0 THEN "error"
    ELSE IF cpu_temp >= CPU_TEMP_CRITICAL \/ gpu_temp >= GPU_TEMP_CRITICAL THEN "critical"
    ELSE IF cpu_temp >= CPU_TEMP_WARNING \/ gpu_temp >= GPU_TEMP_WARNING THEN "warning"
    ELSE "normal"

\* ---------------------------------------------------------------- readers
\* each reader returns [temp |-> the value returned, last |-> the new last-known value]
get_windows_cpu_temperature(probe, last) ==
    IF probe.kind = "value" /\ probe.v > 0
        THEN [temp |-> probe.v, last |-> probe.v]
    ELSE IF probe.kind = "raise"
        THEN [temp |-> last, last |-> last]
    ELSE IF last <= 0
        THEN [temp |-> WINDOWS_CPU_PLACEHOLDER, last |-> WINDOWS_CPU_PLACEHOLDER]
    ELSE [temp |-> last, last |-> last]

get_windows_gpu_temperature(probe, last) ==
    IF probe.kind = "value" /\ probe.v > 0 /\ probe.v < GPU_SANITY_MAX
        THEN [temp |-> probe.v, last |-> probe.v]
    ELSE IF probe.kind = "raise"
        THEN [temp |-> last, last |-> last]
    ELSE IF last <= 0
        THEN [temp |-> WINDOWS_GPU_PLACEHOLDER, last |-> WINDOWS_GPU_PLACEHOLDER]
    ELSE [temp |-> last, last |-> last]

\* variant: a parsed value is returned without being stored as last-known
get_cpu_temperature_no_store(plat, probe, last) ==
    IF plat = "Windows" THEN get_windows_cpu_temperature(probe, last)
    ELSE IF probe.kind = "value"
        THEN [temp |-> probe.v, last |-> last]
    ELSE [temp |-> last, last |-> last]

\* variant: a chain without a value reads as zero
get_cpu_temperature_zero_on_failure(plat, probe, last) ==
    IF plat = "Windows" THEN get_windows_cpu_temperature(probe, last)
    ELSE IF probe.kind = "value"
        THEN [temp |-> probe.v, last |-> probe.v]
    ELSE [temp |-> 0, last |-> last]

get_cpu_temperature(plat, probe, last) ==
    IF plat = "Windows" THEN get_windows_cpu_temperature(probe, last)
    ELSE IF probe.kind = "value"
        THEN [temp |-> probe.v, last |-> probe.v]
    ELSE [temp |-> last, last |-> last]

get_gpu_temperature(plat, probe, last) ==
    IF plat = "Windows" THEN get_windows_gpu_temperature(probe, last)
    ELSE IF probe.kind = "value"
        THEN [temp |-> probe.v, last |-> probe.v]
    ELSE [temp |-> last, last |-> last]

\* ------------------------------------------------------ check_temperature
\* variant: a sensor error is polled at the critical rate
IntervalFor_error_fast(status) ==
    IF status = "critical" \/ status = "error" THEN CRITICAL_CHECK_INTERVAL
    ELSE IF status = "warning" THEN WARNING_CHECK_INTERVAL
    ELSE NORMAL_CHECK_INTERVAL

IntervalFor(status) ==
    IF status = "critical" THEN CRITICAL_CHECK_INTERVAL
    ELSE IF status = "warning" THEN WARNING_CHECK_INTERVAL
    ELSE NORMAL_CHECK_INTERVAL

\* variant: the throttle compares with the critical interval, not the current one
Throttled_fixed_interval == now - last_check_time < CRITICAL_CHECK_INTERVAL

\* the throttle test of check_temperature
Throttled == now - last_check_time < check_interval

\* variant: after an error only a normal sample clears the status
check_temperature_sticky_error(cp, gp, d) ==
    IF Throttled
    THEN /\ status_info' = [cpu_temp |-> last_cpu_temp,
                            gpu_temp |-> last_gpu_temp,
                            status |-> get_status(last_cpu_temp, last_gpu_temp),
                            cached |-> TRUE]
         /\ probe_calls' = <<0, 0>>
         /\ UNCHANGED <<now, last_check_time, check_interval, last_cpu_temp,
                        last_gpu_temp, probed_status>>
    ELSE LET cpu == get_cpu_temperature(platform, cp, last_cpu_temp)
             gpu == get_gpu_temperature(platform, gp, last_gpu_temp)
             fresh == get_status(cpu.temp, gpu.temp)
             status == IF probed_status = "error" /\ fresh # "normal" THEN "error" ELSE fresh
         IN  /\ last_check_time' = now
             /\ last_cpu_temp' = cpu.last
             /\ last_gpu_temp' = gpu.last
             /\ check_interval' = IntervalFor(status)
             /\ status_info' = [cpu_temp |-> cpu.temp, gpu_temp |-> gpu.temp,
                                status |-> status, cached |-> FALSE]
             /\ probe_calls' = <<1, 1>>
             /\ probed_status' = status
             /\ now' = now + d

\* check_temperature as called by the three public methods: cp and gp are
\* what the two readers' chains come to, d is the time the readers block
check_temperature(cp, gp, d) ==
    IF Throttled
    THEN /\ status_info' = [cpu_temp |-> last_cpu_temp,
                            gpu_temp |-> last_gpu_temp,
                            status |-> get_status(last_cpu_temp, last_gpu_temp),
                            cached |-> TRUE]
         /\ probe_calls' = <<0, 0>>
         /\ UNCHANGED <<now, last_check_time, check_interval, last_cpu_temp,
                        last_gpu_temp, probed_status>>
    ELSE LET cpu == get_cpu_temperature(platform, cp, last_cpu_temp)
             gpu == get_gpu_temperature(platform, gp, last_gpu_temp)
             status == get_status(cpu.temp, gpu.temp)
         IN  /\ last_check_time' = now
             /\ last_cpu_temp' = cpu.last
             /\ last_gpu_temp' = gpu.last
             /\ check_interval' = IntervalFor(status)
             /\ status_info' = [cpu_temp |-> cpu.temp, gpu_temp |-> gpu.temp,
                                status |-> status, cached |-> FALSE]
             /\ probe_calls' = <<1, 1>>
             /\ probed_status' = status
             /\ now' = now + d

\* inputs of one call: the probe outcomes and the blocking time; a throttled
\* call runs no probe, so its inputs are fixed
NoProbe == [kind |-> "fail", v |-> 0]

CallInputs ==
    IF Throttled
    THEN {<<NoProbe, NoProbe, 0>>}
    ELSE { <<cp, gp, d>> \in ProbeOutcomes \X ProbeOutcomes \X (0..MaxProbeTime) :
               now + d <= StartTime + Horizon }

CheckTemperature ==
    \E in \in CallInputs :
        /\ check_temperature(in[1], in[2], in[3])
        /\ op' = "check_temperature"
        /\ result' = status_info'
        /\ UNCHANGED platform
        /\ UNCHANGED nonGovVars

\* ------------------------------------------------ should_pause_processing
\* variant: a sensor error pauses processing too
should_pause_processing_on_error(info) ==
    IF info.status = "critical" THEN <<TRUE, "critical temperature">>
    ELSE IF info.status = "error" THEN <<TRUE, "temperature read error">>
    ELSE <<FALSE, "">>

\* variant: the decision is taken from the readings, whatever the status is
should_pause_processing_from_readings(info) ==
    IF info.cpu_temp >= CPU_TEMP_CRITICAL \/ info.gpu_temp >= GPU_TEMP_CRITICAL
    THEN <<TRUE, "critical temperature">>
    ELSE IF info.status = "error" THEN <<FALSE, "temperature read error">>
    ELSE <<FALSE, "">>

should_pause_processing(info) ==
    IF info.status = "critical" THEN <<TRUE, "critical temperature">>
    ELSE IF info.status = "error" THEN <<FALSE, "temperature read error">>
    ELSE <<FALSE, "">>

ShouldPauseProcessing ==
    \E in \in CallInputs :
        /\ check_temperature(in[1], in[2], in[3])
        /\ op' = "should_pause_processing"
        /\ result' = should_pause_processing(status_info')
        /\ UNCHANGED platform
        /\ UNCHANGED nonGovVars

\* ----------------------------------------------- calculate_adaptive_delay
\* a delay is a whole number of 1/DelayUnitsPerSecond seconds; the unit
\* divides 0.5s by both threshold spans, so every factor is exact
DelayUnitsPerSecond ==
    2 * (CPU_TEMP_CRITICAL - CPU_TEMP_WARNING) * (GPU_TEMP_CRITICAL - GPU_TEMP_WARNING)

base_delay == DelayUnitsPerSecond \div 2

\* base_delay * cpu_factor
cpu_delay(cpu_temp) ==
    IF cpu_temp > CPU_TEMP_WARNING
    THEN base_delay + (4 * base_delay * (cpu_temp - CPU_TEMP_WARNING))
                          \div (CPU_TEMP_CRITICAL - CPU_TEMP_WARNING)
    ELSE base_delay

\* variant: the GPU factor is taken from the CPU warning threshold
gpu_delay_cpu_threshold(gpu_temp) ==
    IF gpu_temp > CPU_TEMP_WARNING
    THEN base_delay + (4 * base_delay * (gpu_temp - CPU_TEMP_WARNING))
                          \div (GPU_TEMP_CRITICAL - GPU_TEMP_WARNING)
    ELSE base_delay

\* base_delay * gpu_factor
gpu_delay(gpu_temp) ==
    IF gpu_temp > GPU_TEMP_WARNING
    THEN base_delay + (4 * base_delay * (gpu_temp - GPU_TEMP_WARNING))
                          \div (GPU_TEMP_CRITICAL - GPU_TEMP_WARNING)
    ELSE base_delay

Max(a, b) == IF a >= b THEN a ELSE b

\* variant: the fixed delay is returned for a critical sample as well
calculate_adaptive_delay_fixed_on_critical(info) ==
    IF info.status = "error" \/ info.status = "critical" THEN base_delay * 2
    ELSE Max(cpu_delay(info.cpu_temp), gpu_delay(info.gpu_temp))

\* variant: the error branch is taken only when no reading is usable
calculate_adaptive_delay_late_error(info) ==
    IF info.cpu_temp <= 0 /\ info.gpu_temp <= 0 THEN base_delay * 2
    ELSE Max(cpu_delay(info.cpu_temp), gpu_delay(info.gpu_temp))

\* variant: only the CPU factor is used
calculate_adaptive_delay_cpu_only(info) ==
    IF info.status = "error" THEN base_delay * 2
    ELSE cpu_delay(info.cpu_temp)

calculate_adaptive_delay(info) ==
    IF info.status = "error" THEN base_delay * 2
    ELSE Max(cpu_delay(info.cpu_temp), gpu_delay(info.gpu_temp))

CalculateAdaptiveDelay ==
    \E in \in CallInputs :
        /\ check_temperature(in[1], in[2], in[3])
        /\ op' = "calculate_adaptive_delay"
        /\ result' = calculate_adaptive_delay(status_info')
        /\ UNCHANGED platform
        /\ UNCHANGED nonGovVars

\* ========================================================= ModelSelector
CONTENT_TYPE_GENERAL == "general"
CONTENT_TYPE_CODE == "code"
CONTENT_TYPE_SUMMARY == "summary"

API_TYPE_OLLAMA == "ollama"
API_TYPE_LLAMACPP == "llamacpp"
API_TYPE_YANDEXGPT == "yandexgpt"

\* the backends the selector has descriptors for
Backends == {API_TYPE_OLLAMA, API_TYPE_LLAMACPP, API_TYPE_YANDEXGPT}

\* an identifier a priority list or a caller can name that is no backend
\* (the lists are split on "," without trimming)
UnknownApi == " llamacpp"

ApiIds == Backends \cup {UnknownApi}

ContentTypes == {CONTENT_TYPE_GENERAL, CONTENT_TYPE_CODE, CONTENT_TYPE_SUMMARY}

\* Python's None, and the truth value of an optional string argument
None == "<None>"
Truthy(x) == x # None /\ x # ""

\* text length above which a summarization cue is looked for
SUMMARY_MIN_LENGTH == 1000

\* a payload is described by what detect_content_type reads of it: whether
\* a code pattern matches, its length, and whether a summarization cue matches
Payloads ==
    { [code |-> TRUE,  len |-> SUMMARY_MIN_LENGTH + 1, cue |-> TRUE],
      [code |-> FALSE, len |-> SUMMARY_MIN_LENGTH + 1, cue |-> TRUE],
      [code |-> FALSE, len |-> SUMMARY_MIN_LENGTH,     cue |-> TRUE] }

\* variant: the summarization test comes before the code patterns
detect_content_type_summary_first(text) ==
    IF text.len > SUMMARY_MIN_LENGTH /\ text.cue THEN CONTENT_TYPE_SUMMARY
    ELSE IF text.code THEN CONTENT_TYPE_CODE
    ELSE CONTENT_TYPE_GENERAL

detect_content_type(text) ==
    IF text.code THEN CONTENT_TYPE_CODE
    ELSE IF text.len > SUMMARY_MIN_LENGTH /\ text.cue THEN CONTENT_TYPE_SUMMARY
    ELSE CONTENT_TYPE_GENERAL

\* a text as a sequence of fragments: a function definition, a
\* summarization cue, a plain word, and plain filler of 995 characters
Fragments ==
    { [kind |-> "code", chars |-> 10], [kind |-> "cue", chars |-> 5],
      [kind |-> "plain", chars |-> 5], [kind |-> "plain", chars |-> 995] }

\* fragments a text is made of, at most
MaxFragments == 3

Texts == UNION { [1..n -> Fragments] : n \in 0..MaxFragments }

\* len(text)
RECURSIVE text_len(_, _)
text_len(text, i) ==
    IF i > Len(text) THEN 0 ELSE text[i].chars + text_len(text, i + 1)

\* what detect_content_type reads of a text: re.search of the code
\* patterns, len(), and re.search of the cue patterns
payload_of(text) ==
    [code |-> \E i \in DOMAIN text : text[i].kind = "code",
     len |-> text_len(text, 1),
     cue |-> \E i \in DOMAIN text : text[i].kind = "cue"]

\* detect_content_type(text) called on its own
DetectContentType ==
    \E text \in Texts :
        /\ cls_log' = [turn |-> 1 - cls_log.turn, text |-> text,
                       ret |-> detect_content_type(payload_of(text)),
                       repeated |-> (cls_log.turn # 2 /\ text = cls_log.text),
                       before |-> cls_log.ret]
        /\ UNCHANGED <<govVars, selVars, chanVars, readerVars, metricVars, loopVars, capVars, lateVars>>

ClassifierStart ==
    cls_log = [turn |-> 2, text |-> <<>>, ret |-> CONTENT_TYPE_GENERAL,
               repeated |-> FALSE, before |-> CONTENT_TYPE_GENERAL]

\* the descriptors ModelSelector.__init__ builds when .env sets nothing
DefaultModels ==
    [b \in Backends |->
        IF b = API_TYPE_OLLAMA
            THEN [t \in ContentTypes |-> IF t = CONTENT_TYPE_CODE THEN "codellama" ELSE "llama3"]
        ELSE IF b = API_TYPE_LLAMACPP
            THEN [t \in ContentTypes |-> ""]
        ELSE [t \in ContentTypes |-> "yandexgpt"]]

ApiBaseUrls ==
    [b \in Backends |->
        IF b = API_TYPE_OLLAMA THEN "http://localhost:11434"
        ELSE IF b = API_TYPE_LLAMACPP THEN "http://localhost:8080/v1"
        ELSE "https://llm.api.cloud.yandex.net/foundationModels/v1/completion"]

DefaultPriority == <<API_TYPE_OLLAMA, API_TYPE_LLAMACPP, API_TYPE_YANDEXGPT>>

\* the (text_api_priority, code_api_priority) pairs .env is made to set
PriorityConfigs ==
    { <<DefaultPriority, DefaultPriority>>,
      <<<<API_TYPE_YANDEXGPT, UnknownApi, API_TYPE_OLLAMA, API_TYPE_LLAMACPP>>,
        <<API_TYPE_LLAMACPP, UnknownApi, API_TYPE_LLAMACPP>>>> }

\* what an availability request meets: status 200, another status, or a
\* connection failure that makes requests raise
Responses == {"200", "503", "refused"}

\* how each backend fails while it is down: the local servers refuse the
\* connection or answer an error status, the cloud endpoint answers an error status
DownResponse ==
    [b \in Backends |-> IF b = API_TYPE_OLLAMA THEN "refused" ELSE "503"]

\* the response of backend b now
ResponseOf(b) == IF backend_up[b] THEN "200" ELSE DownResponse[b]

Range(seq) == { seq[i] : i \in DOMAIN seq }

\* dict assignment d[k] = v
DictPut(d, k, v) == [x \in (DOMAIN d) \cup {k} |-> IF x = k THEN v ELSE d[x]]

\* the try body of check_api_availability: the value computed, whether the
\* cache assignment of line 250 was reached, and whether the body raised
availability_try_body(api_type, resp) ==
    IF api_type \in Backends
    THEN IF resp = "refused"
         THEN [is_available |-> FALSE, stored |-> FALSE, raised |-> TRUE]
         ELSE [is_available |-> (resp = "200"), stored |-> TRUE, raised |-> FALSE]
    \* no request is made, and the log call reads the unbound name response
    ELSE [is_available |-> FALSE, stored |-> TRUE, raised |-> TRUE]

\* variant: a backend cached as unavailable is probed again
check_api_availability_recheck_down(cache, api_type, resp) ==
    IF api_type \in DOMAIN cache /\ cache[api_type]
    THEN [ret |-> TRUE, cache |-> cache, probed |-> FALSE, raised |-> FALSE]
    ELSE LET body == availability_try_body(api_type, resp)
         IN  [ret |-> body.is_available /\ ~body.raised,
              cache |-> DictPut(cache, api_type, body.is_available /\ ~body.raised),
              probed |-> TRUE, raised |-> FALSE]

\* variant: an exception of the try body is not caught
check_api_availability_no_handler(cache, api_type, resp) ==
    IF api_type \in DOMAIN cache
    THEN [ret |-> cache[api_type], cache |-> cache, probed |-> FALSE, raised |-> FALSE]
    ELSE LET body == availability_try_body(api_type, resp)
             written == IF body.stored THEN DictPut(cache, api_type, body.is_available)
                        ELSE cache
         IN  [ret |-> body.is_available, cache |-> written,
              probed |-> TRUE, raised |-> body.raised]

\* check_api_availability: [ret |-> the value returned, cache |-> the cache
\* afterwards, probed |-> whether the body ran, raised |-> whether it raised]
check_api_availability(cache, api_type, resp) ==
    IF api_type \in DOMAIN cache
    THEN [ret |-> cache[api_type], cache |-> cache, probed |-> FALSE, raised |-> FALSE]
    ELSE LET body == availability_try_body(api_type, resp)
             written == IF body.stored THEN DictPut(cache, api_type, body.is_available)
                        ELSE cache
         IN  IF body.raised
             THEN [ret |-> FALSE, cache |-> DictPut(written, api_type, FALSE),
                   probed |-> TRUE, raised |-> FALSE]
             ELSE [ret |-> body.is_available, cache |-> written,
                   probed |-> TRUE, raised |-> FALSE]

\* variant: the preferred backend is put in front without being removed
effective_priority_keep_duplicate(api_priority, preferred_api) ==
    IF Truthy(preferred_api) /\ preferred_api \in Range(api_priority)
    THEN <<preferred_api>> \o api_priority
    ELSE api_priority

\* lines 147-149: the list the loop iterates
effective_priority(api_priority, preferred_api) ==
    IF Truthy(preferred_api) /\ preferred_api \in Range(api_priority)
    THEN <<preferred_api>> \o SelectSeq(api_priority, LAMBDA a : a # preferred_api)
    ELSE api_priority

\* variant: the reordered list replaces the configured one
priority_attribute_reordered(api_priority, preferred_api) ==
    effective_priority(api_priority, preferred_api)

\* lines 147-148: the reordered list is a new list bound to the local name
\* api_priority; the list the attribute holds is left as it is
priority_attribute(api_priority, preferred_api) == api_priority

\* the availability check of one loop iteration
check_in_loop(cache, api_type) ==
    check_api_availability(cache, api_type,
        IF api_type \in Backends THEN ResponseOf(api_type) ELSE "none")

\* variant: the loop keeps going and returns the last available backend
RECURSIVE select_loop_last(_, _, _)
select_loop_last(order, i, acc) ==
    IF i > Len(order)
    THEN acc
    ELSE LET chk == check_in_loop(acc.cache, order[i])
             acc2 == [acc EXCEPT !.cache = chk.cache,
                                 !.visited = Append(@, order[i]),
                                 !.probed = IF chk.probed THEN @ \cup {order[i]} ELSE @,
                                 !.found = IF chk.ret THEN order[i] ELSE @]
         IN  select_loop_last(order, i + 1, acc2)

\* the loop of lines 152-174 from position i on: acc carries the cache, the
\* ids visited and the ids probed so far
RECURSIVE select_loop(_, _, _)
select_loop(order, i, acc) ==
    IF i > Len(order)
    THEN [acc EXCEPT !.found = None]
    ELSE LET chk == check_in_loop(acc.cache, order[i])
             acc2 == [acc EXCEPT !.cache = chk.cache,
                                 !.visited = Append(@, order[i]),
                                 !.probed = IF chk.probed THEN @ \cup {order[i]} ELSE @]
         IN  IF chk.raised THEN [acc2 EXCEPT !.raised = TRUE]
             ELSE IF chk.ret THEN [acc2 EXCEPT !.found = order[i]]
             ELSE select_loop(order, i + 1, acc2)

NoneTriple == <<None, None, None>>

\* variant: the override is taken only for a backend that has a base URL
explicit_override_known_only(preferred_api, preferred_model) ==
    Truthy(preferred_api) /\ Truthy(preferred_model) /\ preferred_api \in DOMAIN api_base_urls

\* line 128: both a backend and a model are given
explicit_override(preferred_api, preferred_model) ==
    Truthy(preferred_api) /\ Truthy(preferred_model)

\* select_optimal_api_and_model: the tuple returned, whether the call
\* raised, the cache afterwards, and what the loop iterated and probed
select_optimal_api_and_model(text, preferred_api, preferred_model) ==
    IF explicit_override(preferred_api, preferred_model)
    THEN [ret |-> <<preferred_api, preferred_model,
                    IF preferred_api \in DOMAIN api_base_urls
                    THEN api_base_urls[preferred_api] ELSE "">>,
          raised |-> FALSE, cache |-> api_availability_cache,
          order |-> <<>>, visited |-> <<>>, probed |-> {},
          text_api_priority |-> text_api_priority,
          code_api_priority |-> code_api_priority]
    ELSE LET content_type == detect_content_type(text)
             api_priority == IF content_type = CONTENT_TYPE_CODE
                             THEN code_api_priority ELSE text_api_priority
             order == effective_priority(api_priority, preferred_api)
             loop == select_loop(order, 1,
                         [cache |-> api_availability_cache, visited |-> <<>>,
                          probed |-> {}, found |-> None, raised |-> FALSE])
             api_type == loop.found
             \* a dict lookup of an id without descriptor raises KeyError
             key_error == api_type # None /\
                          (api_type \notin DOMAIN default_models
                             \/ api_type \notin DOMAIN api_base_urls)
         IN  [ret |-> IF loop.raised \/ key_error \/ api_type = None THEN NoneTriple
                      ELSE <<api_type,
                             IF Truthy(preferred_model) THEN preferred_model
                             ELSE default_models[api_type][content_type],
                             api_base_urls[api_type]>>,
              raised |-> loop.raised \/ key_error,
              cache |-> loop.cache, order |-> order,
              visited |-> loop.visited, probed |-> loop.probed,
              text_api_priority |->
                  IF content_type = CONTENT_TYPE_CODE THEN text_api_priority
                  ELSE priority_attribute(text_api_priority, preferred_api),
              code_api_priority |->
                  IF content_type = CONTENT_TYPE_CODE
                  THEN priority_attribute(code_api_priority, preferred_api)
                  ELSE code_api_priority]

\* probes are counted up to ProbeCap
ProbeCap == 2
CountProbes(probed) ==
    [a \in ApiIds |-> IF a \in probed /\ probe_count[a] < ProbeCap
                      THEN probe_count[a] + 1 ELSE probe_count[a]]

ResponsesSeen(probed) ==
    [a \in probed |-> IF a \in Backends THEN ResponseOf(a) ELSE "none"]

PreferredApis == {None, API_TYPE_LLAMACPP, API_TYPE_YANDEXGPT, UnknownApi}
PreferredModels == {None, "", "mistral"}

selConfig == <<text_api_priority, code_api_priority, default_models, api_base_urls>>

Select ==
    \E text \in Payloads, preferred_api \in PreferredApis,
       preferred_model \in PreferredModels :
        LET r == select_optimal_api_and_model(text, preferred_api, preferred_model)
        IN  /\ api_availability_cache' = r.cache
            /\ probe_count' = CountProbes(r.probed)
            /\ sel_call' = [op |-> "select", text |-> text, preferred_api |-> preferred_api,
                            preferred_model |-> preferred_model]
            /\ sel_result' = [ret |-> r.ret, raised |-> r.raised]
            /\ sel_priority' = r.order
            /\ sel_visited' = r.visited
            /\ sel_responses' = ResponsesSeen(r.probed)
            /\ text_api_priority' = r.text_api_priority
            /\ code_api_priority' = r.code_api_priority
            /\ UNCHANGED <<default_models, api_base_urls, backend_up, govVars, chanVars,
                           extVars>>

CheckApiAvailability ==
    \E api_type \in ApiIds :
        LET r == check_in_loop(api_availability_cache, api_type)
            probed == IF r.probed THEN {api_type} ELSE {}
        IN  /\ api_availability_cache' = r.cache
            /\ probe_count' = CountProbes(probed)
            /\ sel_call' = [op |-> "check", text |-> None, preferred_api |-> api_type,
                            preferred_model |-> None]
            /\ sel_result' = [ret |-> r.ret, raised |-> r.raised]
            /\ sel_priority' = <<>>
            /\ sel_visited' = <<api_type>>
            /\ sel_responses' = ResponsesSeen(probed)
            /\ UNCHANGED <<selConfig, backend_up, govVars, chanVars, extVars>>

\* a backend goes down or comes back
BackendChange ==
    \E b \in Backends :
        /\ backend_up' = [backend_up EXCEPT ![b] = ~@]
        /\ UNCHANGED <<selConfig, api_availability_cache, probe_count, sel_call,
                       sel_result, sel_priority, sel_visited, sel_responses, govVars,
                       chanVars, extVars>>

\* ModelSelector.__init__ with the priority lists cfg, before any call
SelectorStart(cfg) ==
    /\ text_api_priority = cfg[1]
    /\ code_api_priority = cfg[2]
    /\ default_models = DefaultModels
    /\ api_base_urls = ApiBaseUrls
    /\ api_availability_cache = << >>
    /\ probe_count = [a \in ApiIds |-> 0]
    /\ sel_call = [op |-> "none", text |-> None, preferred_api |-> None,
                   preferred_model |-> None]
    /\ sel_result = [ret |-> NoneTriple, raised |-> FALSE]
    /\ sel_priority = <<>>
    /\ sel_visited = <<>>
    /\ sel_responses = << >>

\* ======================================================= command channel
ENCODINGS == <<"utf-8", "cp1251", "latin1", "ascii">>

\* byte streams a command can produce, by what decodes them: nothing at all,
\* plain ASCII, UTF-8 text, text that only cp1251 and latin1 decode, and
\* bytes that only latin1 decodes
ByteStreams == {"empty", "ascii", "utf8", "cp1251", "binary"}

\* bytes.decode(encoding) succeeds
Decodes(bytes, encoding) ==
    IF encoding = "utf-8" THEN bytes \in {"ascii", "utf8"}
    ELSE IF encoding = "cp1251" THEN bytes \in {"ascii", "utf8", "cp1251"}
    ELSE IF encoding = "ascii" THEN bytes = "ascii"
    ELSE TRUE

\* a text is <<>> when empty, else the bytes and the encoding that read them;
\* plain ASCII bytes read the same under every encoding of ENCODINGS
EmptyText == <<>>
Decoded(bytes, encoding) ==
    IF bytes = "empty" THEN EmptyText
    ELSE IF bytes = "ascii" THEN <<bytes, "ascii">>
    ELSE <<bytes, encoding>>
Message(m) == <<"message", m>>

\* lines 125-149 and 209-231: the first encoding of ENCODINGS that decodes
\* the data, and latin1 with replacement when the loop left the text empty
RECURSIVE decode_loop(_, _)
decode_loop(data, i) ==
    IF i > Len(ENCODINGS) THEN EmptyText
    ELSE IF data = "empty" THEN EmptyText
    ELSE IF Decodes(data, ENCODINGS[i]) THEN Decoded(data, ENCODINGS[i])
    ELSE decode_loop(data, i + 1)

decode_output(data) ==
    LET str == decode_loop(data, 1)
    IN  IF str = EmptyText /\ data # "empty" THEN Decoded(data, "latin1") ELSE str

\* lines 172-173: the decoding after a reconnect
decode_after_reconnect(data) == Decoded(data, "latin1")

\* the (stdout, stderr) byte streams a command is made to produce
OutputPairs ==
    { <<"ascii", "empty">>, <<"empty", "ascii">>, <<"empty", "empty">>,
      <<"utf8", "empty">>, <<"cp1251", "utf8">>, <<"binary", "cp1251">> }

\* what exec_command and the reads come to: output, or an exception with the
\* transport found active, found dead, or the liveness test itself raising
ExecOutcomes ==
    [kind : {"ok"}, data : OutputPairs]
        \cup [kind : {"raise_active", "raise_dead", "raise_check"}, data : {<<"empty", "empty">>}]

\* the outcome of the retry: output or an exception
RetryOutcomes == { x \in ExecOutcomes : x.kind \in {"ok", "raise_dead"} }

\* whether the host accepts a connection
NetOutcomes == {"ok", "fail"}

\* variant: without key file the password branch is taken, set or not
connect_without_credentials_test(net, id, cl, conn) ==
    IF ~ssh_params_set
    THEN [ret |-> FALSE, client |-> cl, is_connected |-> conn, event |-> "connect_no_params"]
    ELSE IF net = "ok"
    THEN [ret |-> TRUE, client |-> id, is_connected |-> TRUE, event |-> "connect_ok"]
    ELSE [ret |-> FALSE, client |-> id, is_connected |-> FALSE, event |-> "connect_failed"]

\* connect(): the value returned, the fields afterwards and what happened;
\* id names the SSHClient this invocation would create
connect(net, id, cl, conn) ==
    IF ~ssh_params_set
    THEN [ret |-> FALSE, client |-> cl, is_connected |-> conn, event |-> "connect_no_params"]
    ELSE IF ssh_key_is_file \/ ssh_password_set
    THEN IF net = "ok"
         THEN [ret |-> TRUE, client |-> id, is_connected |-> TRUE, event |-> "connect_ok"]
         ELSE [ret |-> FALSE, client |-> id, is_connected |-> FALSE, event |-> "connect_failed"]
    ELSE [ret |-> FALSE, client |-> id, is_connected |-> conn, event |-> "connect_no_credentials"]

\* variant: an exception of the liveness test is not swallowed
transport_active_unguarded(x) ==
    [active |-> x.kind = "raise_active", raised |-> x.kind = "raise_check"]

\* lines 156-160: the liveness test, an exception of which is swallowed
transport_active(x) ==
    [active |-> x.kind = "raise_active", raised |-> FALSE]

\* lines 166-176: the retry after a successful reconnect
retry_command(x2) ==
    IF x2.kind = "ok"
    THEN [ret |-> <<decode_after_reconnect(x2.data[1]), decode_after_reconnect(x2.data[2])>>,
          event |-> "exec_ok", raised |-> FALSE]
    ELSE [ret |-> <<EmptyText, Message("error after reconnect")>>,
          event |-> "exec_raise", raised |-> FALSE]

\* variant: the command is run again on the same session when the
\* transport is still active
recover_retry_when_active(x1, net2, x2, cl, total) ==
    IF x1.kind = "raise_active"
    THEN LET r == retry_command(x2)
         IN  [ret |-> r.ret, raised |-> r.raised, client |-> cl, is_connected |-> TRUE,
              trace |-> <<"transport_active", r.event>>, connects |-> 0]
    ELSE LET c == connect(net2, total + 1, cl, FALSE)
         IN  IF c.ret
             THEN LET r == retry_command(x2)
                  IN  [ret |-> r.ret, raised |-> r.raised, client |-> c.client,
                       is_connected |-> c.is_connected,
                       trace |-> <<"transport_dead", c.event, r.event>>, connects |-> 1]
             ELSE [ret |-> <<EmptyText, Message("error")>>, raised |-> FALSE,
                   client |-> c.client, is_connected |-> c.is_connected,
                   trace |-> <<"transport_dead", c.event>>, connects |-> 1]

\* variant: the session is marked disconnected before the liveness test
recover_mark_disconnected(x1, net2, x2, cl, total) ==
    IF x1.kind = "raise_active"
    THEN [ret |-> <<EmptyText, Message("error")>>, raised |-> FALSE, client |-> cl,
          is_connected |-> FALSE, trace |-> <<"transport_active">>, connects |-> 0]
    ELSE LET c == connect(net2, total + 1, cl, FALSE)
         IN  IF c.ret
             THEN LET r == retry_command(x2)
                  IN  [ret |-> r.ret, raised |-> r.raised, client |-> c.client,
                       is_connected |-> c.is_connected,
                       trace |-> <<"transport_dead", c.event, r.event>>, connects |-> 1]
             ELSE [ret |-> <<EmptyText, Message("error")>>, raised |-> FALSE,
                   client |-> c.client, is_connected |-> c.is_connected,
                   trace |-> <<"transport_dead", c.event>>, connects |-> 1]

\* lines 153-177: the handler of an exception of the first execution
recover(x1, net2, x2, cl, total) ==
    LET alive == transport_active(x1)
    IN  IF alive.raised
        THEN [ret |-> <<EmptyText, EmptyText>>, raised |-> TRUE, client |-> cl,
              is_connected |-> TRUE, trace |-> <<"transport_check_raised">>, connects |-> 0]
        ELSE IF alive.active
        THEN [ret |-> <<EmptyText, Message("error")>>, raised |-> FALSE, client |-> cl,
              is_connected |-> TRUE, trace |-> <<"transport_active">>, connects |-> 0]
        ELSE LET c == connect(net2, total + 1, cl, FALSE)
             IN  IF c.ret
                 THEN LET r == retry_command(x2)
                      IN  [ret |-> r.ret, raised |-> r.raised, client |-> c.client,
                           is_connected |-> c.is_connected,
                           trace |-> <<"transport_dead", c.event, r.event>>, connects |-> 1]
                 ELSE [ret |-> <<EmptyText, Message("error")>>, raised |-> FALSE,
                       client |-> c.client, is_connected |-> c.is_connected,
                       trace |-> <<"transport_dead", c.event>>, connects |-> 1]

\* lines 119-177: the first execution on an established session
execute_connected(x1, net2, x2, cl, total) ==
    IF x1.kind = "ok"
    THEN [ret |-> <<decode_output(x1.data[1]), decode_output(x1.data[2])>>,
          raised |-> FALSE, client |-> cl, is_connected |-> TRUE,
          trace |-> <<"exec_ok">>, connects |-> 0]
    ELSE LET r == recover(x1, net2, x2, cl, total)
         IN  [r EXCEPT !.trace = <<"exec_raise">> \o @]

\* variant: connect() is called whether or not the session is marked connected
execute_command_connects_always(net1, x1, net2, x2) ==
    LET c == connect(net1, connect_total + 1, client, is_connected)
    IN  IF ~c.ret
        THEN [ret |-> <<EmptyText, Message("no connection")>>, raised |-> FALSE,
              client |-> c.client, is_connected |-> c.is_connected,
              trace |-> <<c.event>>, connects |-> 1]
        ELSE LET r == execute_connected(x1, net2, x2, c.client, connect_total + 1)
             IN  [r EXCEPT !.trace = <<c.event>> \o @, !.connects = @ + 1]

\* _execute_command
execute_command(net1, x1, net2, x2) ==
    IF is_connected
    THEN execute_connected(x1, net2, x2, client, connect_total)
    ELSE LET c == connect(net1, connect_total + 1, client, is_connected)
         IN  IF ~c.ret
             THEN [ret |-> <<EmptyText, Message("no connection")>>, raised |-> FALSE,
                   client |-> c.client, is_connected |-> c.is_connected,
                   trace |-> <<c.event>>, connects |-> 1]
             ELSE LET r == execute_connected(x1, net2, x2, c.client, connect_total + 1)
                  IN  [r EXCEPT !.trace = <<c.event>> \o @, !.connects = @ + 1]

\* connect() invocations one instance is followed for
MaxConnects == 4

ExecuteCommand ==
    /\ connect_total + 2 <= MaxConnects
    /\ \E net1 \in NetOutcomes, x1 \in ExecOutcomes, net2 \in NetOutcomes, x2 \in RetryOutcomes :
        LET r == execute_command(net1, x1, net2, x2)
        IN  /\ client' = r.client
            /\ is_connected' = r.is_connected
            /\ connect_total' = connect_total + r.connects
            /\ chan_call' = "execute_command"
            /\ chan_ret' = r.ret
            /\ chan_raised' = r.raised
            /\ chan_trace' = r.trace
            /\ UNCHANGED <<chanConfig, govVars, selVars, extVars>>

\* what subprocess comes to: output, a timeout, or another exception
LocalOutcomes ==
    [kind : {"ok"}, data : OutputPairs]
        \cup [kind : {"timeout", "raise"}, data : {<<"empty", "empty">>}]

\* _execute_local_command
execute_local_command(x) ==
    IF x.kind = "ok"
    THEN [ret |-> <<decode_output(x.data[1]), decode_output(x.data[2])>>,
          raised |-> FALSE, trace |-> <<"local_ok">>]
    ELSE IF x.kind = "timeout"
    THEN [ret |-> <<EmptyText, Message("timeout")>>, raised |-> FALSE,
          trace |-> <<"local_timeout">>]
    ELSE [ret |-> <<EmptyText, Message("error")>>, raised |-> FALSE,
          trace |-> <<"local_raise">>]

ExecuteLocalCommand ==
    \E x \in LocalOutcomes :
        LET r == execute_local_command(x)
        IN  /\ chan_call' = "execute_local_command"
            /\ chan_ret' = r.ret
            /\ chan_raised' = r.raised
            /\ chan_trace' = r.trace
            /\ UNCHANGED <<chanConfig, client, is_connected, connect_total, govVars, selVars, extVars>>

\* disconnect()
Disconnect ==
    /\ is_connected' = IF client # 0 /\ is_connected THEN FALSE ELSE is_connected
    /\ chan_call' = "disconnect"
    /\ chan_ret' = <<EmptyText, EmptyText>>
    /\ chan_raised' = FALSE
    /\ chan_trace' = IF client # 0 /\ is_connected THEN <<"close">> ELSE <<>>
    /\ UNCHANGED <<chanConfig, client, connect_total, govVars, selVars, extVars>>

\* the channel fields after ServerMonitor.__init__
ChannelStart ==
    /\ client = 0
    /\ is_connected = FALSE
    /\ connect_total = 0
    /\ chan_call = "none"
    /\ chan_ret = <<EmptyText, EmptyText>>
    /\ chan_raised = FALSE
    /\ chan_trace = <<>>

\* ------------------------------------------------- the readers' fallback chains
\* values a chain step is made to parse: a dead sensor, a plausible reading,
\* a reading at the warning threshold and a reading at the sanity bound
StepReadings == {0, 40, CPU_TEMP_WARNING, MaxTemp}

\* one command of a chain: "none" when it wrote to stderr or its output lacks
\* the expected marker, "garbage" when float() of the output raises, "value"
\* when float() gives v
StepOutcomes ==
    [kind : {"none", "garbage"}, v : {0}] \cup [kind : {"value"}, v : StepReadings]

\* the commands of each reader, in order: two on Linux for the CPU, three
\* otherwise (on Windows the GPU's two AMD methods and the WMI query; a
\* machine without an AMD device has "none" for the two AMD methods)
CpuChains(plat) ==
    IF plat = "Windows" THEN [1..3 -> StepOutcomes] ELSE [1..2 -> StepOutcomes]
GpuChains(plat) == [1..3 -> StepOutcomes]

\* lines 264-277: the parse of the output the Linux CPU reader is left with
linux_cpu_parse(step) ==
    IF step.kind = "value" THEN [kind |-> "value", v |-> step.v]
    ELSE [kind |-> "raise", v |-> 0]

\* lines 252-277: the second command runs only when the first wrote to stderr
linux_cpu_chain(steps) ==
    IF steps[1].kind = "none"
    THEN IF steps[2].kind = "none" THEN [kind |-> "fail", v |-> 0]
         ELSE linux_cpu_parse(steps[2])
    ELSE linux_cpu_parse(steps[1])

\* lines 337-373: a reading above zero ends the chain, an unparsable output
\* leaves it through the outer handler
RECURSIVE windows_cpu_chain(_, _)
windows_cpu_chain(steps, i) ==
    IF i > Len(steps) THEN [kind |-> "fail", v |-> 0]
    ELSE IF steps[i].kind = "garbage" THEN [kind |-> "raise", v |-> 0]
    ELSE IF steps[i].kind = "value" /\ steps[i].v > 0
        THEN [kind |-> "value", v |-> steps[i].v]
    ELSE windows_cpu_chain(steps, i + 1)

\* lines 289-325: any parsed number ends the chain, a ValueError moves on
RECURSIVE linux_gpu_chain(_, _)
linux_gpu_chain(steps, i) ==
    IF i > Len(steps) THEN [kind |-> "fail", v |-> 0]
    ELSE IF steps[i].kind = "value" THEN [kind |-> "value", v |-> steps[i].v]
    ELSE linux_gpu_chain(steps, i + 1)

\* lines 409-466: a reading inside (0, 150) ends the chain, a ValueError or
\* a reading outside moves on
RECURSIVE windows_gpu_chain(_, _)
windows_gpu_chain(steps, i) ==
    IF i > Len(steps) THEN [kind |-> "fail", v |-> 0]
    ELSE IF steps[i].kind = "value" /\ steps[i].v > 0 /\ steps[i].v < GPU_SANITY_MAX
        THEN [kind |-> "value", v |-> steps[i].v]
    ELSE windows_gpu_chain(steps, i + 1)

\* what each reader's chain comes to
cpu_chain(plat, steps) ==
    IF plat = "Windows" THEN windows_cpu_chain(steps, 1) ELSE linux_cpu_chain(steps)
gpu_chain(plat, steps) ==
    IF plat = "Windows" THEN windows_gpu_chain(steps, 1) ELSE linux_gpu_chain(steps, 1)

\* no command of the chain gave a number
NoStepYields(steps) == \A i \in DOMAIN steps : steps[i].kind # "value"

\* the value a reader parsed most recently, if it ever parsed one
NeverParsed == [seen |-> FALSE, v |-> 0]
Parsed(probe, before) ==
    IF probe.kind = "value" THEN [seen |-> TRUE, v |-> probe.v] ELSE before

\* what a reader's chain comes to together with whether any command of it
\* gave a number, for every chain the platform has
CpuProbes(plat) ==
    { [probe |-> cpu_chain(plat, cs), failed |-> NoStepYields(cs)] : cs \in CpuChains(plat) }
GpuProbes(plat) ==
    { [probe |-> gpu_chain(plat, gs), failed |-> NoStepYields(gs)] : gs \in GpuChains(plat) }

\* check_temperature with the two chains spelled out
CheckTemperatureChains ==
    IF Throttled
    THEN /\ check_temperature(NoProbe, NoProbe, 0)
         /\ op' = "check_temperature"
         /\ result' = status_info'
         /\ probe_log' = [probe_log EXCEPT !.turn = 1 - @, !.ran = FALSE]
         /\ UNCHANGED <<platform, selVars, chanVars, metricVars, loopVars, capVars, clsVars, lateVars>>
    ELSE \E c \in CpuProbes(platform), g \in GpuProbes(platform) :
            LET cp == c.probe
                gp == g.probe
            IN  /\ check_temperature(cp, gp, 0)
                /\ op' = "check_temperature"
                /\ result' = status_info'
                /\ probe_log' = [turn |-> 1 - probe_log.turn,
                                 ran |-> TRUE,
                                 cpu_failed |-> c.failed,
                                 gpu_failed |-> g.failed,
                                 cpu_parsed |-> Parsed(cp, probe_log.cpu_parsed),
                                 gpu_parsed |-> Parsed(gp, probe_log.gpu_parsed),
                                 before |-> probed_status]
                /\ UNCHANGED <<platform, selVars, chanVars, metricVars, loopVars, capVars, clsVars, lateVars>>

ReadersStart ==
    probe_log = [turn |-> 0, ran |-> FALSE, cpu_failed |-> FALSE, gpu_failed |-> FALSE,
                 cpu_parsed |-> NeverParsed, gpu_parsed |-> NeverParsed,
                 before |-> "none"]

\* get_cpu_temperature called on its own, with its chain spelled out
GetCpuTemperature ==
    \E steps \in CpuChains(platform) :
        LET r == get_cpu_temperature(platform, cpu_chain(platform, steps), last_cpu_temp)
        IN  /\ last_cpu_temp' = r.last
            /\ cpu_read_log' = [turn |-> 1 - cpu_read_log.turn, steps |-> steps,
                                ret |-> r.temp, before |-> last_cpu_temp]
            /\ UNCHANGED <<platform, now, last_check_time, check_interval, last_gpu_temp,
                           op, status_info, result, probe_calls, probed_status>>
            /\ UNCHANGED <<selVars, chanVars, readerVars, metricVars, loopVars, capVars,
                           clsVars, histVars, thrVars>>

CpuReadStart ==
    cpu_read_log = [turn |-> 0, steps |-> <<>>, ret |-> 0, before |-> 0]

\* ------------------------------------------------- load and memory readers
\* load averages in hundredths, as /proc/loadavg gives the three of them and
\* as the Windows query gives one percentage
LoadReadings == { <<12, 30, 45>>, <<250, 180, 90>> }
LoadPercentages == {12, 250}

\* total, used and free memory in MB as the command reports them
MemoryReadings == { <<16384, 4096, 12288>>, <<8192, 6144, 2048>>, <<4096, 1024, 3072>> }

\* one command of a metric reader: "none" when it wrote to stderr or its
\* output lacks the expected marker, "garbage" when the parse raises
LoadOutcomes(plat) ==
    [kind : {"none", "garbage"}, v : {<<0, 0, 0>>}]
        \cup [kind : {"value"},
              v : IF plat = "Windows" THEN { <<q, q, q>> : q \in LoadPercentages }
                  ELSE LoadReadings]
MemoryOutcomes == [kind : {"none", "garbage"}, v : {<<0, 0, 0>>}]
                      \cup [kind : {"value"}, v : MemoryReadings]

\* get_system_load
get_system_load(plat, x) ==
    IF plat = "Windows"
    THEN IF x.kind = "value" THEN x.v ELSE <<50, 50, 50>>
    ELSE IF x.kind = "value" THEN x.v ELSE <<0, 0, 0>>

\* the dictionary get_memory_usage builds from three parsed numbers
memory_usage(total, used, free) ==
    [total_mb |-> total, used_mb |-> used, free_mb |-> free,
     used_percent |-> IF total > 0 THEN (used * 100) \div total ELSE 0]

\* get_memory_usage: on Windows the WMI query and then systeminfo, both
\* computing used as total - free; on Linux the one "free" command
get_memory_usage(plat, x1, x2) ==
    IF plat = "Windows"
    THEN IF x1.kind = "value" THEN memory_usage(x1.v[1], x1.v[1] - x1.v[3], x1.v[3])
         ELSE IF x2.kind = "value" THEN memory_usage(x2.v[1], x2.v[1] - x2.v[3], x2.v[3])
         ELSE memory_usage(8192, 4096, 4096)
    ELSE IF x1.kind = "value" THEN memory_usage(x1.v[1], x1.v[2], x1.v[3])
         ELSE memory_usage(0, 0, 0)

\* what a metric reader read last without a failure, if it ever did
NeverRead == [seen |-> FALSE, v |-> <<>>]

GetSystemLoad ==
    \E x \in LoadOutcomes(platform) :
        LET ret == get_system_load(platform, x)
        IN  /\ metric_log' = [metric_log EXCEPT
                    !.turn = 1 - @, !.op = "get_system_load", !.ret = ret,
                    !.failed = (x.kind # "value"),
                    !.load_good = IF x.kind = "value" THEN [seen |-> TRUE, v |-> ret] ELSE @]
            /\ UNCHANGED <<govVars, selVars, chanVars, readerVars, loopVars, capVars, clsVars, lateVars>>

GetMemoryUsage ==
    \E x1 \in MemoryOutcomes, x2 \in MemoryOutcomes :
        LET ret == get_memory_usage(platform, x1, x2)
            steps == IF platform = "Windows" THEN {x1, x2} ELSE {x1}
            failed == \A x \in steps : x.kind # "value"
        IN  /\ metric_log' = [metric_log EXCEPT
                    !.turn = 1 - @, !.op = "get_memory_usage", !.ret = ret,
                    !.failed = failed,
                    !.memory_good = IF failed THEN @ ELSE [seen |-> TRUE, v |-> ret]]
            /\ UNCHANGED <<govVars, selVars, chanVars, readerVars, loopVars, capVars, clsVars, lateVars>>

MetricsStart ==
    metric_log = [turn |-> 0, op |-> "none", ret |-> <<>>, failed |-> FALSE,
                  load_good |-> NeverRead, memory_good |-> NeverRead]

\* ------------------------------------------- start_temperature_monitoring
\* intervals a caller passes: the default, the one of the reasoning tests,
\* and a short one
BaseIntervals == {1, 5, 10}

Statuses == {"normal", "warning", "critical", "error"}

\* iterations counted; the count stays at the cap afterwards
LoopCap == 3

\* one pass of the try block: the status check_temperature returns, whether
\* the block raises (check_temperature's own log_action, log_error or
\* log_temperature_warning failing), and whether the log_error of the
\* handler raises in its turn
IterationOutcomes ==
    [status : Statuses, raises : BOOLEAN, handler_raises : BOOLEAN]

\* lines 811-819
sleep_time_for(status, base) ==
    IF status = "critical" THEN 2
    ELSE IF status = "warning" THEN 5
    ELSE IF status = "error" THEN 3
    ELSE base

\* start_temperature_monitoring(monitoring_interval)
StartTemperatureMonitoring ==
    /\ loop_pc = "idle"
    /\ monitoring_interval' \in BaseIntervals
    /\ loop_pc' = "check"
    /\ UNCHANGED <<loop_status, sleep_time, loop_checks>>
    /\ UNCHANGED <<govVars, selVars, chanVars, readerVars, metricVars, capVars, clsVars, lateVars>>

\* lines 798-825: one iteration up to its time.sleep
MonitoringIteration ==
    /\ loop_pc = "check"
    /\ loop_checks' = IF loop_checks < LoopCap THEN loop_checks + 1 ELSE loop_checks
    /\ \E x \in IterationOutcomes :
          IF ~x.raises
          THEN /\ loop_status' = x.status
               /\ sleep_time' = sleep_time_for(x.status, monitoring_interval)
               /\ loop_pc' = "sleep"
          ELSE IF ~x.handler_raises
          THEN /\ loop_status' = "raised"
               /\ sleep_time' = monitoring_interval
               /\ loop_pc' = "sleep"
          ELSE /\ loop_status' = "raised"
               /\ sleep_time' = 0
               /\ loop_pc' = "ended"
    /\ UNCHANGED monitoring_interval
    /\ UNCHANGED <<govVars, selVars, chanVars, readerVars, metricVars, capVars, clsVars, lateVars>>

\* time.sleep returns
MonitoringWake ==
    /\ loop_pc = "sleep"
    /\ loop_pc' = "check"
    /\ UNCHANGED <<monitoring_interval, loop_status, sleep_time, loop_checks>>
    /\ UNCHANGED <<govVars, selVars, chanVars, readerVars, metricVars, capVars, clsVars, lateVars>>

LoopStart ==
    /\ monitoring_interval = 10
    /\ loop_pc = "idle"
    /\ loop_status = "none"
    /\ sleep_time = 0
    /\ loop_checks = 0

\* -------------------------------------------------- get_model_capabilities
\* max_tokens of a descriptor nothing was learnt about
DEFAULT_MAX_TOKENS == 2048

\* the (api_type, model_name) pairs callers ask about
CapabilityQueries ==
    { <<API_TYPE_OLLAMA, "mistral">>, <<API_TYPE_OLLAMA, "codellama">>,
      <<API_TYPE_LLAMACPP, "codellama">>, <<API_TYPE_YANDEXGPT, "yandexgpt-lite">>,
      <<UnknownApi, "mistral">> }

\* model names that hold one of "code", "coder", "starcoder", "wizard"
CodeModelNames == {"codellama"}

\* what the request comes to: an exception (of requests.post or of reading
\* the body), a status other than 200, or a 200 whose body names num_ctx (0
\* when absent), says "код", says "суммариз" and names a token count (0 when
\* absent)
CapabilityResponses ==
    { [kind |-> "raise", num_ctx |-> 0, says_code |-> FALSE, says_summary |-> FALSE, tokens |-> 0],
      [kind |-> "status", num_ctx |-> 0, says_code |-> FALSE, says_summary |-> FALSE, tokens |-> 0],
      [kind |-> "ok", num_ctx |-> 0, says_code |-> FALSE, says_summary |-> FALSE, tokens |-> 0],
      [kind |-> "ok", num_ctx |-> 4096, says_code |-> TRUE, says_summary |-> TRUE, tokens |-> 8000] }

\* line 276
cache_key(api_type, model_name) == api_type \o ":" \o model_name

\* lines 284-292, without the description and version texts
default_capabilities(api_type, model_name) ==
    [name |-> model_name, api |-> api_type, supports_code |-> FALSE,
     supports_summarization |-> FALSE, max_tokens |-> DEFAULT_MAX_TOKENS]

\* lines 294-371: the descriptor the try block is left with, whether a
\* request was sent and whether the block raised
probe_capabilities(api_type, model_name, resp) ==
    LET base == default_capabilities(api_type, model_name)
    IN  IF api_type = API_TYPE_OLLAMA
        THEN [requested |-> TRUE, raised |-> resp.kind = "raise",
              desc |-> IF resp.kind = "ok"
                       THEN [base EXCEPT
                               !.max_tokens = IF resp.num_ctx > 0 THEN resp.num_ctx ELSE @,
                               !.supports_code = model_name \in CodeModelNames,
                               !.supports_summarization = TRUE]
                       ELSE base]
        ELSE IF api_type = API_TYPE_LLAMACPP
        THEN [requested |-> FALSE, raised |-> FALSE,
              desc |-> [base EXCEPT !.supports_code = model_name \in CodeModelNames,
                                    !.supports_summarization = TRUE]]
        ELSE IF api_type = API_TYPE_YANDEXGPT
        THEN [requested |-> TRUE, raised |-> resp.kind = "raise",
              desc |-> IF resp.kind = "ok"
                       THEN [base EXCEPT
                               !.supports_code = resp.says_code,
                               !.supports_summarization = resp.says_summary,
                               !.max_tokens = IF resp.tokens > 0 THEN resp.tokens ELSE @]
                       ELSE base]
        ELSE [requested |-> FALSE, raised |-> FALSE, desc |-> base]

\* variant: a descriptor is stored only when the try block did not raise
get_model_capabilities_forgets_failure(cache, api_type, model_name, resp) ==
    LET key == cache_key(api_type, model_name)
    IN  IF key \in DOMAIN cache
        THEN [ret |-> cache[key], cache |-> cache, raised |-> FALSE,
              requested |-> FALSE, probe_raised |-> FALSE]
        ELSE LET p == probe_capabilities(api_type, model_name, resp)
             IN  [ret |-> p.desc, cache |-> IF p.raised THEN cache ELSE DictPut(cache, key, p.desc),
                  raised |-> FALSE, requested |-> p.requested, probe_raised |-> p.raised]

\* get_model_capabilities: both the try block and its handler store the
\* descriptor and return it
get_model_capabilities(cache, api_type, model_name, resp) ==
    LET key == cache_key(api_type, model_name)
    IN  IF key \in DOMAIN cache
        THEN [ret |-> cache[key], cache |-> cache, raised |-> FALSE,
              requested |-> FALSE, probe_raised |-> FALSE]
        ELSE LET p == probe_capabilities(api_type, model_name, resp)
             IN  [ret |-> p.desc, cache |-> DictPut(cache, key, p.desc),
                  raised |-> FALSE, requested |-> p.requested, probe_raised |-> p.raised]

GetModelCapabilities ==
    \E q \in CapabilityQueries, resp \in CapabilityResponses :
        LET r == get_model_capabilities(model_capabilities_cache, q[1], q[2], resp)
        IN  /\ model_capabilities_cache' = r.cache
            /\ cap_log' = [turn |-> 1 - cap_log.turn, query |-> q, ret |-> r.ret,
                           raised |-> r.raised, requested |-> r.requested,
                           probe_raised |-> r.probe_raised]
            /\ cap_first' = IF q \in DOMAIN cap_first THEN cap_first
                            ELSE DictPut(cap_first, q, [ret |-> r.ret, probe_raised |-> r.probe_raised])
            /\ UNCHANGED <<govVars, selVars, chanVars, readerVars, metricVars, loopVars, clsVars, lateVars>>

CapabilitiesStart ==
    /\ model_capabilities_cache = << >>
    /\ cap_log = [turn |-> 0, query |-> <<None, None>>,
                  ret |-> default_capabilities(None, None), raised |-> FALSE,
                  requested |-> FALSE, probe_raised |-> FALSE]
    /\ cap_first = << >>

\* ------------------------------------------------------- AssistantManager
\* line 510: the length above which the history is cut
HISTORY_LIMIT == 20

\* send_instruction calls that store the user message and then fail, followed
\* on one instance
MaxFailedSends == 2

\* the texts the instructions file can hold
InstructionTexts == {"todo v1", "todo v2"}

\* what a send_instruction call meets: the assistant marked unavailable, the
\* adaptation of the instruction raising, a 200 reply with a first choice, a
\* 200 reply without choices, another status, a timeout, another exception
\* of the request
SendOutcomes ==
    {"unavailable", "adapt_raises", "ok", "no_choices", "non_200", "timeout", "raise"}

\* the "role" of the first choice's message: given by the backend of the
\* chat-completions protocol, or absent
ReplyRoles == {"assistant", None}

SystemMessage(text) == [role |-> "system", content |-> text]
UserMessage == [role |-> "user", content |-> "instruction"]

\* lines 504-507: the reply as stored, "assistant" standing in for no role
AssistantMessage(reply_role) ==
    [role |-> IF reply_role = None THEN "assistant" ELSE reply_role, content |-> "reply"]

\* lines 460-470: the system message when the history is empty, then the
\* user's message
with_user_message(history, text) ==
    (IF history = <<>> THEN <<SystemMessage(text)>> ELSE history) \o <<UserMessage>>

\* variant: the last twenty messages are kept
truncate_last_twenty(history) ==
    IF Len(history) > HISTORY_LIMIT
    THEN SubSeq(history, Len(history) - HISTORY_LIMIT + 1, Len(history))
    ELSE history

\* lines 510-512: the first message and the last nineteen
truncate(history) ==
    IF Len(history) > HISTORY_LIMIT
    THEN <<history[1]>> \o SubSeq(history, Len(history) - (HISTORY_LIMIT - 1) + 1, Len(history))
    ELSE history

\* send_instruction: the history afterwards and whether the call succeeded
send_instruction(history, text, outcome, reply_role) ==
    IF outcome \in {"unavailable", "adapt_raises"}
    THEN [history |-> history, success |-> FALSE, stored |-> FALSE]
    ELSE IF outcome = "ok"
    THEN [history |-> truncate(with_user_message(history, text)
                                   \o <<AssistantMessage(reply_role)>>),
          success |-> TRUE, stored |-> TRUE]
    ELSE [history |-> with_user_message(history, text), success |-> FALSE,
          stored |-> TRUE]

SendInstruction ==
    \E outcome \in SendOutcomes, reply_role \in ReplyRoles :
        LET r == send_instruction(message_history, instructions, outcome, reply_role)
            failed == r.stored /\ ~r.success
        IN  /\ failed => failed_sends < MaxFailedSends
            /\ message_history' = r.history
            /\ failed_sends' = IF failed THEN failed_sends + 1 ELSE failed_sends
            /\ asst_log' = [op |-> "send_instruction", outcome |-> outcome,
                            success |-> r.success]
            /\ UNCHANGED instructions
            /\ UNCHANGED <<govVars, selVars, chanVars, readerVars, metricVars, loopVars,
                           capVars, clsVars, cpuReadVars, thrVars>>

\* update_instructions: the file is read again; a changed text replaces the
\* instructions and the first message of a non-empty history
update_instructions(history, old_text, new_text) ==
    IF new_text # old_text
    THEN [instructions |-> new_text,
          history |-> IF history # <<>>
                      THEN [history EXCEPT ![1] = SystemMessage(new_text)]
                      ELSE history]
    ELSE [instructions |-> old_text, history |-> history]

UpdateInstructions ==
    \E new_text \in InstructionTexts :
        LET r == update_instructions(message_history, instructions, new_text)
        IN  /\ instructions' = r.instructions
            /\ message_history' = r.history
            /\ asst_log' = [op |-> "update_instructions", outcome |-> "ok",
                            success |-> TRUE]
            /\ UNCHANGED failed_sends
            /\ UNCHANGED <<govVars, selVars, chanVars, readerVars, metricVars, loopVars,
                           capVars, clsVars, cpuReadVars, thrVars>>

\* AssistantManager.__init__
AssistantStart ==
    /\ message_history = <<>>
    /\ instructions = "todo v1"
    /\ failed_sends = 0
    /\ asst_log = [op |-> "none", outcome |-> "none", success |-> FALSE]

\* --------------------------------------- two threads on the global monitor
\* the thread of start_temperature_monitoring and the caller of
\* get_server_monitor().check_temperature() in the main thread
Threads == {"background", "foreground"}

\* ServerMonitor instances the two first calls of get_server_monitor can make
Instances == 1..2

\* what one reader's chain comes to in a re-probe of a thread
ThreadProbes ==
    { [kind |-> "value", v |-> 40], [kind |-> "value", v |-> CPU_TEMP_CRITICAL] }

\* the threads are followed up to StartTime + ThreadHorizon
ThreadHorizon == 1

\* lines 44-50: the fields check_temperature uses, as __init__ sets them
NewMonitor ==
    [last_check_time |-> 0, check_interval |-> NORMAL_CHECK_INTERVAL,
     last_cpu_temp |-> 0, last_gpu_temp |-> 0]

\* a thread outside every call
Idle(m) == [pc |-> "ready", monitor |-> m, current_time |-> 0, seen |-> 0,
            cpu_temp |-> 0, gpu_temp |-> 0]

ThreadFrame ==
    UNCHANGED <<platform, last_check_time, check_interval, last_cpu_temp, last_gpu_temp,
                op, status_info, result, probe_calls, probed_status, selVars, chanVars,
                readerVars, metricVars, loopVars, capVars, clsVars, cpuReadVars, histVars>>

\* line 780: the test _monitor is None
GsmTest(t) ==
    /\ thr[t].pc = "start"
    /\ thr' = [thr EXCEPT ![t].pc = IF monitor_global = 0 THEN "create" ELSE "return"]
    /\ UNCHANGED <<now, monitor_global, monitors_made, mon, pairs, thr_sample>>
    /\ ThreadFrame

\* line 781: a ServerMonitor is constructed and stored in _monitor
GsmCreate(t) ==
    /\ thr[t].pc = "create"
    /\ monitors_made' = monitors_made + 1
    /\ monitor_global' = monitors_made + 1
    /\ thr' = [thr EXCEPT ![t].pc = "return"]
    /\ UNCHANGED <<now, mon, pairs, thr_sample>>
    /\ ThreadFrame

\* line 782: _monitor is read again and returned
GsmReturn(t) ==
    /\ thr[t].pc = "return"
    /\ thr' = [thr EXCEPT ![t] = Idle(monitor_global)]
    /\ UNCHANGED <<now, monitor_global, monitors_made, mon, pairs, thr_sample>>
    /\ ThreadFrame

\* lines 627-634: the clock is read and compared; a throttled call returns
\* the stored pair and its status at once
ThrottleTest(t) ==
    /\ thr[t].pc = "ready"
    /\ LET m == thr[t].monitor
           f == mon[m]
       IN  IF now - f.last_check_time < f.check_interval
           THEN /\ thr_sample' = [cpu_temp |-> f.last_cpu_temp,
                                  gpu_temp |-> f.last_gpu_temp,
                                  status |-> get_status(f.last_cpu_temp, f.last_gpu_temp),
                                  cached |-> TRUE, monitor |-> m]
                /\ UNCHANGED thr
           ELSE /\ thr' = [thr EXCEPT ![t].pc = "update", ![t].current_time = now,
                                     ![t].seen = f.last_check_time]
                /\ UNCHANGED thr_sample
    /\ UNCHANGED <<now, monitor_global, monitors_made, mon, pairs>>
    /\ ThreadFrame

\* line 636: last_check_time = current_time
UpdateLastCheck(t) ==
    /\ thr[t].pc = "update"
    /\ mon' = [mon EXCEPT ![thr[t].monitor].last_check_time = thr[t].current_time]
    /\ thr' = [thr EXCEPT ![t].pc = "cpu"]
    /\ UNCHANGED <<now, monitor_global, monitors_made, pairs, thr_sample>>
    /\ ThreadFrame

\* line 639: cpu_temp = self.get_cpu_temperature()
ReadCpu(t) ==
    /\ thr[t].pc = "cpu"
    /\ \E probe \in ThreadProbes :
          LET m == thr[t].monitor
              r == get_cpu_temperature(platform, probe, mon[m].last_cpu_temp)
          IN  /\ mon' = [mon EXCEPT ![m].last_cpu_temp = r.last]
              /\ thr' = [thr EXCEPT ![t].pc = "gpu", ![t].cpu_temp = r.temp]
    /\ UNCHANGED <<now, monitor_global, monitors_made, pairs, thr_sample>>
    /\ ThreadFrame

\* line 640: gpu_temp = self.get_gpu_temperature(); the two values this
\* re-probe read are a pair from here on
ReadGpu(t) ==
    /\ thr[t].pc = "gpu"
    /\ \E probe \in ThreadProbes :
          LET m == thr[t].monitor
              r == get_gpu_temperature(platform, probe, mon[m].last_gpu_temp)
          IN  /\ mon' = [mon EXCEPT ![m].last_gpu_temp = r.last]
              /\ thr' = [thr EXCEPT ![t].pc = "status", ![t].gpu_temp = r.temp]
              /\ pairs' = [pairs EXCEPT ![m] = @ \cup {<<thr[t].cpu_temp, r.temp>>}]
    /\ UNCHANGED <<now, monitor_global, monitors_made, thr_sample>>
    /\ ThreadFrame

\* lines 643-660: the status, the new interval and the sample returned
FinishCheck(t) ==
    /\ thr[t].pc = "status"
    /\ LET m == thr[t].monitor
           status == get_status(thr[t].cpu_temp, thr[t].gpu_temp)
       IN  /\ mon' = [mon EXCEPT ![m].check_interval = IntervalFor(status)]
           /\ thr_sample' = [cpu_temp |-> thr[t].cpu_temp, gpu_temp |-> thr[t].gpu_temp,
                             status |-> status, cached |-> FALSE, monitor |-> m]
           /\ thr' = [thr EXCEPT ![t] = Idle(m)]
    /\ UNCHANGED <<now, monitor_global, monitors_made, pairs>>
    /\ ThreadFrame

\* time passes while the threads run
ThreadTick ==
    /\ now < StartTime + ThreadHorizon
    /\ now' = now + 1
    /\ UNCHANGED thrVars
    /\ ThreadFrame

\* one step of one thread
ThreadStep(t) ==
    \/ GsmTest(t)
    \/ GsmCreate(t)
    \/ GsmReturn(t)
    \/ ThrottleTest(t)
    \/ UpdateLastCheck(t)
    \/ ReadCpu(t)
    \/ ReadGpu(t)
    \/ FinishCheck(t)

\* the module is imported and both threads are about to call get_server_monitor
ThreadsStart ==
    /\ monitor_global = 0
    /\ monitors_made = 0
    /\ mon = [i \in Instances |-> NewMonitor]
    /\ thr = [t \in Threads |-> [Idle(0) EXCEPT !.pc = "start"]]
    /\ pairs = [i \in Instances |-> {<<0, 0>>}]
    /\ thr_sample = [cpu_temp |-> 0, gpu_temp |-> 0, status |-> "none", cached |-> FALSE,
                     monitor |-> 0]

LateStart == CpuReadStart /\ AssistantStart /\ ThreadsStart

ExtStart ==
    /\ ReadersStart /\ MetricsStart /\ LoopStart /\ CapabilitiesStart /\ ClassifierStart
    /\ LateStart

\* ------------------------------------------------------------------ clock
Tick ==
    /\ now < StartTime + Horizon
    /\ now' = now + 1
    /\ UNCHANGED <<platform, last_check_time, check_interval, last_cpu_temp,
                   last_gpu_temp, op, status_info, result, probe_calls,
                   probed_status>>
    /\ UNCHANGED nonGovVars

\* ---------------------------------------------------------- specification
NoSample == [cpu_temp |-> 0, gpu_temp |-> 0, status |-> "none", cached |-> FALSE]

\* ServerMonitor.__init__
GovernorStart ==
    /\ now = StartTime
    /\ last_check_time = 0
    /\ check_interval = NORMAL_CHECK_INTERVAL
    /\ last_cpu_temp = 0
    /\ last_gpu_temp = 0
    /\ op = "none"
    /\ status_info = NoSample
    /\ result = NoSample
    /\ probe_calls = <<0, 0>>
    /\ probed_status = "none"

Init ==
    /\ platform \in Platforms
    /\ GovernorStart
    /\ SelectorStart(<<DefaultPriority, DefaultPriority>>)
    /\ backend_up = [b \in Backends |-> TRUE]
    /\ ssh_params_set = TRUE /\ ssh_key_is_file = TRUE /\ ssh_password_set = FALSE
    /\ ChannelStart
    /\ ExtStart

Next ==
    \/ CheckTemperature
    \/ ShouldPauseProcessing
    \/ CalculateAdaptiveDelay
    \/ Tick

Spec == Init /\ [][Next]_vars

\* the selector on its own: any of the priority configurations, any backend
\* up or down at the start
SelectorInit ==
    /\ platform = "Linux"
    /\ GovernorStart
    /\ \E cfg \in PriorityConfigs : SelectorStart(cfg)
    /\ backend_up \in [Backends -> BOOLEAN]
    /\ ssh_params_set = TRUE /\ ssh_key_is_file = TRUE /\ ssh_password_set = FALSE
    /\ ChannelStart
    /\ ExtStart

SelectorNext ==
    \/ Select
    \/ CheckApiAvailability
    \/ BackendChange

SpecSelector == SelectorInit /\ [][SelectorNext]_vars

\* the command channel on its own: any .env configuration of the session
ChannelInit ==
    /\ platform = "Linux"
    /\ GovernorStart
    /\ SelectorStart(<<DefaultPriority, DefaultPriority>>)
    /\ backend_up = [b \in Backends |-> TRUE]
    /\ ssh_params_set \in BOOLEAN
    /\ ssh_key_is_file \in BOOLEAN
    /\ ssh_password_set \in BOOLEAN
    /\ ChannelStart
    /\ ExtStart

ChannelNext ==
    \/ ExecuteCommand
    \/ ExecuteLocalCommand
    \/ Disconnect

SpecChannel == ChannelInit /\ [][ChannelNext]_vars

\* the governor with the fallback chains of its readers
ReadersInit ==
    /\ platform \in Platforms
    /\ GovernorStart
    /\ SelectorStart(<<DefaultPriority, DefaultPriority>>)
    /\ backend_up = [b \in Backends |-> TRUE]
    /\ ssh_params_set = TRUE /\ ssh_key_is_file = TRUE /\ ssh_password_set = FALSE
    /\ ChannelStart
    /\ ExtStart

ReadersNext ==
    \/ CheckTemperatureChains
    \/ Tick

SpecReaders == ReadersInit /\ [][ReadersNext]_vars

\* the CPU reader on its own
CpuReaderInit == ReadersInit

CpuReaderNext == GetCpuTemperature

SpecCpuReader == CpuReaderInit /\ [][CpuReaderNext]_vars

\* the two threads, under every interleaving of their steps
ThreadsInit ==
    /\ platform = "Linux"
    /\ GovernorStart
    /\ SelectorStart(<<DefaultPriority, DefaultPriority>>)
    /\ backend_up = [b \in Backends |-> TRUE]
    /\ ssh_params_set = TRUE /\ ssh_key_is_file = TRUE /\ ssh_password_set = FALSE
    /\ ChannelStart
    /\ ExtStart

ThreadsNext ==
    \/ \E t \in Threads : ThreadStep(t)
    \/ ThreadTick

SpecThreads == ThreadsInit /\ [][ThreadsNext]_vars

\* the assistant manager
AssistantInit == ReadersInit

AssistantNext ==
    \/ SendInstruction
    \/ UpdateInstructions

SpecAssistant == AssistantInit /\ [][AssistantNext]_vars

\* the load and memory readers
MetricsInit == ReadersInit

MetricsNext ==
    \/ GetSystemLoad
    \/ GetMemoryUsage

SpecMetrics == MetricsInit /\ [][MetricsNext]_vars

\* the content classifier
ClassifierInit == ReadersInit

ClassifierNext == DetectContentType

SpecClassifier == ClassifierInit /\ [][ClassifierNext]_vars

\* the capability lookup
CapabilitiesInit == ReadersInit

CapabilitiesNext == GetModelCapabilities

SpecCapabilities == CapabilitiesInit /\ [][CapabilitiesNext]_vars

\* the monitoring thread; the scheduler runs a runnable thread and a sleep
\* comes to its end
LoopInit == ReadersInit

LoopNext ==
    \/ StartTemperatureMonitoring
    \/ MonitoringIteration
    \/ MonitoringWake

SpecLoop ==
    /\ LoopInit
    /\ [][LoopNext]_vars
    /\ WF_vars(StartTemperatureMonitoring)
    /\ WF_vars(MonitoringIteration)
    /\ WF_vars(MonitoringWake)

TypeOK ==
    /\ platform \in Platforms
    /\ now \in StartTime..(StartTime + Horizon)
    /\ last_check_time \in {0} \cup (StartTime..(StartTime + Horizon))
    /\ check_interval \in {NORMAL_CHECK_INTERVAL, WARNING_CHECK_INTERVAL, CRITICAL_CHECK_INTERVAL}
    /\ op \in {"none", "check_temperature", "should_pause_processing", "calculate_adaptive_delay"}
    /\ status_info.status \in {"none", "normal", "warning", "critical", "error"}

\* ------------------------------------------------------------- properties
\* a step that is a call of one of the three public methods
Call == CheckTemperature \/ ShouldPauseProcessing \/ CalculateAdaptiveDelay

Sampled == status_info.status # "none"

\* C1: every sample returned by check_temperature, cached or fresh, whose
\* cpu_temp or gpu_temp is <= 0 has status "error", whatever the other
\* reading is compared with the thresholds.
C1_ErrorTakesPrecedence ==
    (Sampled /\ (status_info.cpu_temp <= 0 \/ status_info.gpu_temp <= 0))
        => status_info.status = "error"

\* a sample with a dead GPU sensor and a CPU reading above critical
C1_Witness ==
    /\ status_info.gpu_temp <= 0
    /\ status_info.cpu_temp >= 85
    /\ status_info.status = "error"

\* C2: for cpu > 0 and gpu > 0 the status is the threshold function with
\* inclusive bounds: critical iff cpu >= 85 or gpu >= 90, otherwise warning
\* iff cpu >= 70 or gpu >= 75, otherwise normal.
C2_ThresholdFunction ==
    (Sampled /\ status_info.cpu_temp > 0 /\ status_info.gpu_temp > 0) =>
        LET crit == status_info.cpu_temp >= 85 \/ status_info.gpu_temp >= 90
            warn == status_info.cpu_temp >= 70 \/ status_info.gpu_temp >= 75
        IN  status_info.status =
                IF crit THEN "critical" ELSE IF warn THEN "warning" ELSE "normal"

\* cpu exactly at the critical threshold with a safe gpu
C2_Witness ==
    /\ status_info.cpu_temp = 85
    /\ status_info.gpu_temp = 50
    /\ status_info.status = "critical"

\* C3: a call made while now - last_check_time < check_interval returns a
\* sample marked cached, invokes neither reader, and leaves last_check_time,
\* check_interval, last_cpu_temp and last_gpu_temp unchanged.
C3_ThrottledCallFrame ==
    [][(now - last_check_time < check_interval /\ Call) =>
          /\ status_info'.cached = TRUE
          /\ probe_calls' = <<0, 0>>
          /\ UNCHANGED <<last_check_time, check_interval, last_cpu_temp, last_gpu_temp>>]_vars

\* a call was served inside the throttle window of an earlier re-probe
C3_Witness ==
    /\ op = "check_temperature"
    /\ status_info.cached = TRUE
    /\ probe_calls = <<0, 0>>
    /\ last_check_time >= StartTime

\* C4: when a call re-probed and the next call comes before the interval
\* chosen by that re-probe has elapsed, the next call returns the same
\* cpu_temp, gpu_temp and status, marked cached.
C4_CachedRepeatsProbe ==
    [][(Sampled /\ status_info.cached = FALSE
          /\ now - last_check_time < check_interval /\ Call) =>
          status_info' = [status_info EXCEPT !.cached = TRUE]]_vars

\* a cached sample repeating a probe whose readers both fell back
C4_Witness ==
    /\ status_info.cached = TRUE
    /\ platform = "Windows"
    /\ status_info.cpu_temp = WINDOWS_CPU_PLACEHOLDER
    /\ status_info.gpu_temp = WINDOWS_GPU_PLACEHOLDER

\* C5: check_interval is always 1, 2 or 5, and is 1 after a re-probe with
\* status critical, 2 after warning, 5 after normal or error.
C5_IntervalMatchesStatus ==
    /\ check_interval \in {1, 2, 5}
    /\ probed_status = "critical" => check_interval = 1
    /\ probed_status = "warning" => check_interval = 2
    /\ probed_status \in {"normal", "error"} => check_interval = 5

\* a re-probe that computed error kept the normal interval
C5_Witness ==
    /\ probed_status = "error"
    /\ check_interval = 5
    /\ last_check_time >= StartTime

\* C6: should_pause_processing returns True iff the sample is critical; for
\* error it returns False with a non-empty reason; for warning and normal it
\* returns (False, "").
C6_PauseOnlyOnCritical ==
    op = "should_pause_processing" =>
        /\ result[1] = TRUE <=> status_info.status = "critical"
        /\ status_info.status = "error" => (result[1] = FALSE /\ result[2] # "")
        /\ status_info.status \in {"warning", "normal"} => result = <<FALSE, "">>

\* a sensor error did not pause processing
C6_Witness ==
    /\ op = "should_pause_processing"
    /\ status_info.status = "error"
    /\ result[1] = FALSE

\* C7: the delay returned by calculate_adaptive_delay is between 0.5s and
\* 2.5s for every pair of readings.
C7_DelayWithinBounds ==
    op = "calculate_adaptive_delay" =>
        /\ 2 * result >= DelayUnitsPerSecond
        /\ 2 * result <= 5 * DelayUnitsPerSecond

\* at least one reading of the sample is above its own warning threshold
AboveWarning(info) == info.cpu_temp > 70 \/ info.gpu_temp > 75

\* C8 as stated: of two delay calls, each with a reading above its warning
\* threshold, the one with the larger max(cpu, gpu) has the larger delay.
C8_MonotoneInMax ==
    [][(/\ op = "calculate_adaptive_delay" /\ op' = "calculate_adaptive_delay"
        /\ AboveWarning(status_info) /\ AboveWarning(status_info')
        /\ Max(status_info.cpu_temp, status_info.gpu_temp)
              <= Max(status_info'.cpu_temp, status_info'.gpu_temp))
          => result <= result']_vars

\* C8 amended: the delay is non-decreasing in each reading separately: of two
\* delay calls with all four readings positive, the one whose cpu and gpu
\* are both at least as high has at least as large a delay.
C8_MonotoneInEachReading ==
    [][(/\ op = "calculate_adaptive_delay" /\ op' = "calculate_adaptive_delay"
        /\ status_info.cpu_temp > 0 /\ status_info.gpu_temp > 0
        /\ status_info.cpu_temp <= status_info'.cpu_temp
        /\ status_info.gpu_temp <= status_info'.gpu_temp)
          => result <= result']_vars

\* a delay computed from a fresh sample with a reading above warning
C8_Witness ==
    /\ op = "calculate_adaptive_delay"
    /\ status_info.cached = FALSE
    /\ last_check_time > StartTime
    /\ status_info.cpu_temp > 70
    /\ status_info.gpu_temp > 0
    /\ 2 * result > DelayUnitsPerSecond

\* C9 as stated: the delay is exactly 0.5s whenever cpu <= 70 and gpu <= 75.
C9_BaseAtOrBelowWarning ==
    (op = "calculate_adaptive_delay"
        /\ status_info.cpu_temp <= 70 /\ status_info.gpu_temp <= 75)
        => 2 * result = DelayUnitsPerSecond

\* C9 amended: the delay is exactly 0.5s whenever 0 < cpu <= 70 and
\* 0 < gpu <= 75.
C9_BaseAtOrBelowWarningPositive ==
    (op = "calculate_adaptive_delay"
        /\ status_info.cpu_temp > 0 /\ status_info.cpu_temp <= 70
        /\ status_info.gpu_temp > 0 /\ status_info.gpu_temp <= 75)
        => 2 * result = DelayUnitsPerSecond

\* both readings exactly at their warning thresholds
C9_Witness ==
    /\ op = "calculate_adaptive_delay"
    /\ status_info.cpu_temp = 70
    /\ status_info.gpu_temp = 75
    /\ 2 * result = DelayUnitsPerSecond

\* C10: when cpu <= 0 or gpu <= 0 the delay is exactly 1.0s, whatever the
\* other reading is.
C10_ErrorDelay ==
    (op = "calculate_adaptive_delay"
        /\ (status_info.cpu_temp <= 0 \/ status_info.gpu_temp <= 0))
        => result = DelayUnitsPerSecond

\* a dead GPU sensor with the CPU far above its critical threshold
C10_Witness ==
    /\ op = "calculate_adaptive_delay"
    /\ status_info.gpu_temp <= 0
    /\ status_info.cpu_temp > 85
    /\ result = DelayUnitsPerSecond

\* fifteen times the factor of one metric, both threshold spans being 15
Factor15(reading, warning) ==
    IF reading > warning THEN 15 + 4 * (reading - warning) ELSE 15

Selected == sel_call.op = "select"
Overridden == Truthy(sel_call.preferred_api) /\ Truthy(sel_call.preferred_model)

\* the availability the cache holds for an id
CachedUp(a) == a \in DOMAIN api_availability_cache /\ api_availability_cache[a]
CachedDown(a) == a \in DOMAIN api_availability_cache /\ ~api_availability_cache[a]

\* C12: a select call given both a backend and a model returns exactly that
\* pair, runs no availability check and leaves api_availability_cache
\* unchanged, also for a backend cached as unavailable or not configured.
C12_ExplicitPairBypasses ==
    [][(sel_call'.op = "select" /\ Truthy(sel_call'.preferred_api)
          /\ Truthy(sel_call'.preferred_model)) =>
          /\ sel_result'.raised = FALSE
          /\ sel_result'.ret[1] = sel_call'.preferred_api
          /\ sel_result'.ret[2] = sel_call'.preferred_model
          /\ sel_visited' = <<>>
          /\ UNCHANGED <<api_availability_cache, probe_count>>]_vars

\* the pair was returned for an id that is no backend and was never probed
C12_Witness ==
    /\ Selected
    /\ sel_call.preferred_api = UnknownApi
    /\ sel_result.ret = <<UnknownApi, "mistral", "">>
    /\ UnknownApi \notin DOMAIN api_availability_cache
    /\ CachedDown(API_TYPE_OLLAMA)

\* C13: without the override, select returns the first backend of the
\* iterated order whose availability is true, every id before it having
\* availability false, with the given model or else the backend's default
\* model for the detected content class.
C13_FirstAvailable ==
    (Selected /\ ~Overridden /\ ~sel_result.raised) =>
        LET ups == { i \in DOMAIN sel_priority : CachedUp(sel_priority[i]) }
        IN  IF ups = {} THEN sel_result.ret = NoneTriple
            ELSE LET i == CHOOSE k \in ups : \A j \in ups : k <= j
                     b == sel_priority[i]
                 IN  /\ sel_result.ret[1] = b
                     /\ \A j \in 1..(i - 1) : CachedDown(sel_priority[j])
                     /\ sel_result.ret[2] =
                            IF Truthy(sel_call.preferred_model)
                            THEN sel_call.preferred_model
                            ELSE default_models[b][detect_content_type(sel_call.text)]

\* the second backend of the default order was chosen for code, the first
\* being down, with a later one up as well
C13_Witness ==
    /\ Selected
    /\ sel_call.preferred_api = None /\ sel_call.preferred_model = None
    /\ sel_call.text.code
    /\ sel_priority = DefaultPriority
    /\ CachedDown(API_TYPE_OLLAMA)
    /\ CachedUp(API_TYPE_YANDEXGPT)
    /\ sel_result.ret[1] = API_TYPE_LLAMACPP
    /\ sel_result.ret[2] = ""

C15_UnavailableIsAValue ==
    Selected =>
        /\ sel_result.raised = FALSE
        /\ (~Overridden /\ \A i \in DOMAIN sel_priority : ~CachedUp(sel_priority[i]))
              => sel_result.ret = NoneTriple

\* nothing was available in a list naming an id that is no backend, with a
\* model alone given
C15_Witness ==
    /\ Selected
    /\ sel_call.preferred_api = None
    /\ sel_call.preferred_model = "mistral"
    /\ UnknownApi \in Range(sel_visited)
    /\ UnknownApi \in DOMAIN sel_responses
    /\ sel_result.ret = NoneTriple

\* the priority list configured for the content class of the last call
ConfiguredPriority ==
    IF detect_content_type(sel_call.text) = "code"
    THEN code_api_priority ELSE text_api_priority

IsPrefix(p, q) == Len(p) <= Len(q) /\ \A i \in DOMAIN p : p[i] = q[i]

\* C16: with a preferred backend and no forced model, the order iterated is
\* the preferred backend followed by the other ids in their configured
\* relative order when the list names it; otherwise the configured order is
\* iterated unchanged and the preferred backend is neither probed nor returned.
C16_PreferredFirst ==
    (Selected /\ Truthy(sel_call.preferred_api) /\ ~Truthy(sel_call.preferred_model)) =>
        LET pa == sel_call.preferred_api
        IN  /\ IsPrefix(sel_visited, sel_priority)
            /\ IF \E i \in DOMAIN ConfiguredPriority : ConfiguredPriority[i] = pa
               THEN sel_priority =
                        <<pa>> \o SelectSeq(ConfiguredPriority, LAMBDA a : a # pa)
               ELSE /\ sel_priority = ConfiguredPriority
                    /\ pa \notin Range(sel_visited)
                    /\ pa \notin DOMAIN sel_responses
                    /\ sel_result.ret[1] # pa

\* the preferred last backend of a four-entry list was moved to the front
\* and the whole reordered list was walked
C16_Witness ==
    /\ Selected
    /\ sel_call.preferred_api = API_TYPE_LLAMACPP
    /\ sel_call.preferred_model = None
    /\ sel_priority = <<API_TYPE_LLAMACPP, API_TYPE_YANDEXGPT, UnknownApi, API_TYPE_OLLAMA>>
    /\ sel_visited = sel_priority

\* ------------------------------------------------- properties of the channel
ConnectEvents ==
    {"connect_ok", "connect_failed", "connect_no_params", "connect_no_credentials"}
ExecEvents == {"exec_ok", "exec_raise"}

\* positions of the connect attempts and of the executions in the last call
ConnectsAt(trace) == { i \in DOMAIN trace : trace[i] \in ConnectEvents }
ExecsAt(trace) == { i \in DOMAIN trace : trace[i] \in ExecEvents }

\* the last call ran its command to the end
CommandSucceeded ==
    chan_trace # <<>> /\ chan_trace[Len(chan_trace)] \in {"exec_ok", "local_ok"}

FailurePair(ret) == Len(ret) = 2 /\ ret[1] = EmptyText /\ ret[2] # EmptyText

\* C17: _execute_command and _execute_local_command never raise; they return
\* a (stdout, stderr) pair, and every failure is an empty stdout with a
\* non-empty stderr.
C17_ExecutorsNeverRaise ==
    chan_call \in {"execute_command", "execute_local_command"} =>
        /\ chan_raised = FALSE
        /\ Len(chan_ret) = 2
        /\ ~CommandSucceeded => FailurePair(chan_ret)

\* the liveness test itself raised and the reconnect failed
C17_Witness ==
    /\ chan_call = "execute_command"
    /\ chan_trace = <<"exec_raise", "transport_dead", "connect_failed">>
    /\ is_connected = FALSE
    /\ FailurePair(chan_ret)

\* C18: one _execute_command call sends the command at most twice and calls
\* connect at most twice, one lazy connect first and one reconnect after a
\* dead transport; a second execution follows a successful reconnect only,
\* and when it fails the call returns an error without doing anything more.
C18_BoundedRetry ==
    chan_call = "execute_command" =>
        LET cs == ConnectsAt(chan_trace)
            xs == ExecsAt(chan_trace)
        IN  /\ Cardinality(xs) <= 2
            /\ Cardinality(cs) <= 2
            /\ \A i \in cs : i = 1 \/ chan_trace[i - 1] = "transport_dead"
            /\ \A i \in xs : \A j \in xs :
                   i < j => /\ chan_trace[i] = "exec_raise"
                            /\ j = Len(chan_trace)
                            /\ chan_trace[j - 1] = "connect_ok"
                            /\ chan_trace[j - 2] = "transport_dead"
                            /\ chan_trace[j] = "exec_raise" => FailurePair(chan_ret)

\* a lazy connect, a dead transport, a reconnect and a failed retry
C18_Witness ==
    /\ chan_call = "execute_command"
    /\ chan_trace = <<"connect_ok", "exec_raise", "transport_dead", "connect_ok", "exec_raise">>
    /\ FailurePair(chan_ret)
    /\ is_connected

\* C19: when the execution raises with the transport still active, the call
\* returns the error as stderr with an empty stdout, makes no reconnect and
\* no retry, and is_connected and the client handle stay as they were when
\* the command was sent.
C19_ActiveTransportNoReconnect ==
    [][(chan_call' = "execute_command"
          /\ \E i \in DOMAIN chan_trace' : chan_trace'[i] = "transport_active") =>
          /\ FailurePair(chan_ret')
          /\ IF is_connected
             THEN /\ chan_trace' = <<"exec_raise", "transport_active">>
                  /\ UNCHANGED <<is_connected, client, connect_total>>
             ELSE /\ chan_trace' = <<"connect_ok", "exec_raise", "transport_active">>
                  /\ is_connected' = TRUE
                  /\ connect_total' = connect_total + 1
                  /\ client' = connect_total']_vars

\* an error on a live session left the session as it was
C19_Witness ==
    /\ chan_call = "execute_command"
    /\ chan_trace = <<"exec_raise", "transport_active">>
    /\ is_connected
    /\ client # 0
    /\ FailurePair(chan_ret)

\* .env gives the host and the user but neither a key file nor a password
MissingCredentials == ssh_params_set /\ ~ssh_key_is_file /\ ~ssh_password_set

\* C20 as stated: with the credentials missing the execute call returns an
\* empty stdout and a non-empty stderr without running the command, and no
\* later execute call on the instance invokes connect again.
C20_NeverConnectsAgain ==
    [][(MissingCredentials /\ chan_call' = "execute_command") =>
          /\ FailurePair(chan_ret')
          /\ ExecsAt(chan_trace') = {}
          /\ connect_total >= 1 => connect_total' = connect_total]_vars

\* C20 amended: with the credentials missing every execute call invokes
\* connect exactly once, runs no command, returns an empty stdout and a
\* non-empty stderr and leaves is_connected False; the failure is not
\* retried within the call, and each later call attempts the connect anew.
C20_OneConnectPerCall ==
    [][(MissingCredentials /\ chan_call' = "execute_command") =>
          /\ FailurePair(chan_ret')
          /\ chan_trace' = <<"connect_no_credentials">>
          /\ connect_total' = connect_total + 1
          /\ is_connected' = FALSE]_vars

\* a second execute call failed on the missing credentials again
C20_Witness ==
    /\ MissingCredentials
    /\ chan_call = "execute_command"
    /\ chan_trace = <<"connect_no_credentials">>
    /\ connect_total = 2
    /\ client = 2
    /\ FailurePair(chan_ret)

\* the texts the first encoding of ENCODINGS that decodes the bytes gives
FirstDecodingTexts == { decode_output(b) : b \in ByteStreams }

\* C21: every byte stream a command returns, on the first remote attempt, on
\* the retry after a reconnect and on the local path, is read with the first
\* encoding of utf-8, cp1251, latin1, ascii that decodes it, so the same
\* bytes give the same text on the first attempt and on the retry.
C21_SameDecodingEverywhere ==
    (chan_call \in {"execute_command", "execute_local_command"} /\ CommandSucceeded) =>
        /\ chan_ret[1] \in FirstDecodingTexts
        /\ chan_ret[2] \in FirstDecodingTexts

\* ------------------------------------------------- properties of the readers
\* a step in which check_temperature ran the two readers
Reprobe == probe_log'.turn # probe_log.turn /\ probe_log'.ran

\* C22: once a reader has parsed a value, a later call in which no command
\* of its chain gives a number returns the value parsed most recently and
\* leaves the stored last-known value as it was; when that happens to both
\* readers the status stays what the previous probe computed.
C22_FailedProbeKeepsLastValue ==
    [][Reprobe =>
          /\ (probe_log'.cpu_failed /\ probe_log.cpu_parsed.seen) =>
                /\ status_info'.cpu_temp = probe_log.cpu_parsed.v
                /\ last_cpu_temp' = last_cpu_temp
          /\ (probe_log'.gpu_failed /\ probe_log.gpu_parsed.seen) =>
                /\ status_info'.gpu_temp = probe_log.gpu_parsed.v
                /\ last_gpu_temp' = last_gpu_temp
          /\ (/\ probe_log'.cpu_failed /\ probe_log.cpu_parsed.seen
              /\ probe_log'.gpu_failed /\ probe_log.gpu_parsed.seen) =>
                status_info'.status = probed_status]_vars

\* both chains failed after a normal sample, and the sample is still normal
C22_Witness ==
    /\ probe_log.ran /\ probe_log.cpu_failed /\ probe_log.gpu_failed
    /\ probe_log.cpu_parsed = [seen |-> TRUE, v |-> 40]
    /\ probe_log.gpu_parsed = [seen |-> TRUE, v |-> 40]
    /\ probe_log.before = "normal"
    /\ status_info = [cpu_temp |-> 40, gpu_temp |-> 40, status |-> "normal", cached |-> FALSE]

\* C24: parsed values are sanity-bounded on every platform path, so that
\* last_cpu_temp and last_gpu_temp are always their initial value, a
\* placeholder or a parsed value strictly between 0 and 150.
C24_StoredValuesSanityBounded ==
    /\ last_cpu_temp = 0 \/ (last_cpu_temp > 0 /\ last_cpu_temp < GPU_SANITY_MAX)
    /\ last_gpu_temp = 0 \/ (last_gpu_temp > 0 /\ last_gpu_temp < GPU_SANITY_MAX)

\* C25: on Windows, when no command of a reader's chain has ever given a
\* number, the CPU reader returns and stores 35 and the GPU reader 60, and
\* when that holds of both the sample's status is normal.
C25_WindowsPlaceholders ==
    [][(Reprobe /\ platform = "Windows") =>
          /\ (probe_log'.cpu_failed /\ ~probe_log.cpu_parsed.seen) =>
                /\ status_info'.cpu_temp = WINDOWS_CPU_PLACEHOLDER
                /\ last_cpu_temp' = WINDOWS_CPU_PLACEHOLDER
          /\ (probe_log'.gpu_failed /\ ~probe_log.gpu_parsed.seen) =>
                /\ status_info'.gpu_temp = WINDOWS_GPU_PLACEHOLDER
                /\ last_gpu_temp' = WINDOWS_GPU_PLACEHOLDER
          /\ (/\ probe_log'.cpu_failed /\ ~probe_log.cpu_parsed.seen
              /\ probe_log'.gpu_failed /\ ~probe_log.gpu_parsed.seen) =>
                status_info'.status = "normal"]_vars

\* C26: the status after a re-probe is the threshold function of the two
\* readings of that probe, whatever the status was before: from error, two
\* readings above zero give normal, warning or critical by the thresholds,
\* and from any status a reading of zero or less gives error.
C26_StatusHasNoMemory ==
    [][Reprobe =>
          LET c == status_info'.cpu_temp
              g == status_info'.gpu_temp
          IN  /\ probe_log'.before = probed_status
              /\ probed_status' = status_info'.status
              /\ status_info'.status =
                    IF c <= 0 \/ g <= 0 THEN "error"
                    ELSE IF c >= 85 \/ g >= 90 THEN "critical"
                    ELSE IF c >= 70 \/ g >= 75 THEN "warning"
                    ELSE "normal"]_vars

\* a re-probe took the status from error to warning
C26_Witness ==
    /\ probe_log.ran
    /\ probe_log.before = "error"
    /\ status_info.cached = FALSE
    /\ status_info.status = "warning"
    /\ status_info.cpu_temp = 70 /\ status_info.gpu_temp = 40

\* a re-probe took the status from warning to error
C26_WitnessEntered ==
    /\ probe_log.ran
    /\ probe_log.before = "warning"
    /\ status_info.cached = FALSE
    /\ status_info.status = "error"

\* C23: get_system_load and get_memory_usage return what they last read
\* successfully, not zero, when every command of their chain fails after an
\* earlier successful read.
C23_MetricsKeepLastValue ==
    [][(metric_log'.turn # metric_log.turn /\ metric_log'.failed) =>
          /\ (metric_log'.op = "get_system_load" /\ metric_log.load_good.seen) =>
                metric_log'.ret = metric_log.load_good.v
          /\ (metric_log'.op = "get_memory_usage" /\ metric_log.memory_good.seen) =>
                metric_log'.ret = metric_log.memory_good.v]_vars

\* ------------------------------------------- properties of the monitoring loop
\* C27: for every base interval the loop sleeps exactly the base interval
\* after a check with status normal and strictly less after a check with
\* status warning, critical or error.
C27_ShorterSleepWhenNotNormal ==
    (loop_pc = "sleep" /\ loop_status \in Statuses) =>
        IF loop_status = "normal" THEN sleep_time = monitoring_interval
        ELSE sleep_time < monitoring_interval

\* C28: the loop never ends and never lets an exception out: after every
\* iteration it sleeps and checks again, so that check_temperature is called
\* again and again.
C28_LoopRunsForever ==
    /\ [](loop_pc # "ended")
    /\ []<>(loop_pc = "check")

\* ------------------------------------------- properties of the capability lookup
\* C29: get_model_capabilities never raises; the first call for a backend
\* and model stores the descriptor it returns, the default one (no code, no
\* summarization, 2048 tokens) when the probe raises, and every later call
\* for the same backend and model returns that descriptor without a request.
C29_CapabilitiesMemoized ==
    [][(cap_log'.turn # cap_log.turn) =>
          LET q == cap_log'.query
          IN  /\ cap_log'.raised = FALSE
              /\ cap_first'[q].ret \in Range(model_capabilities_cache')
              /\ IF q \in DOMAIN cap_first
                 THEN /\ cap_log'.ret = cap_first[q].ret
                      /\ cap_log'.requested = FALSE
                      /\ UNCHANGED model_capabilities_cache
                 ELSE /\ cap_log'.ret = cap_first'[q].ret
                      /\ cap_log'.probe_raised =>
                            /\ cap_log'.ret.supports_code = FALSE
                            /\ cap_log'.ret.supports_summarization = FALSE
                            /\ cap_log'.ret.max_tokens = 2048]_vars

\* a later call answered from the descriptor stored when the probe raised
C29_Witness ==
    /\ cap_log.query = <<"ollama", "codellama">>
    /\ cap_log.requested = FALSE
    /\ cap_first[cap_log.query].probe_raised
    /\ cap_log.ret = [name |-> "codellama", api |-> "ollama", supports_code |-> FALSE,
                      supports_summarization |-> FALSE, max_tokens |-> 2048]
    /\ \E q \in DOMAIN cap_first : cap_first[q].ret.max_tokens = 4096

\* ------------------------------------------- properties of the classifier
HasFragment(text, kind) == \E i \in DOMAIN text : text[i].kind = kind

RECURSIVE CharCount(_)
CharCount(text) == IF text = <<>> THEN 0 ELSE Head(text).chars + CharCount(Tail(text))

C30_WitnessAtThreshold ==
    /\ ~HasFragment(cls_log.text, "code") /\ HasFragment(cls_log.text, "cue")
    /\ CharCount(cls_log.text) = 1000
    /\ cls_log.ret = CONTENT_TYPE_GENERAL

\* --------------------------------------------------- overheating and pause
\* the sample a should_pause_processing call was served from shows a device
\* at or above its critical threshold
Overheated ==
    \/ status_info.cpu_temp >= CPU_TEMP_CRITICAL
    \/ status_info.gpu_temp >= GPU_TEMP_CRITICAL

\* C34 as stated: whenever the sample shows a CPU reading at or above 85 or a
\* GPU reading at or above 90, should_pause_processing returns True.
C34_OverheatAlwaysPauses ==
    (op = "should_pause_processing" /\ Overheated) => result[1] = TRUE

\* C34 amended: with such a sample should_pause_processing returns True
\* exactly when both readings are positive; a non-positive reading of the
\* other device makes the status error and the call returns False with a
\* non-empty reason.
C34_OverheatPausesUnlessSensorError ==
    (op = "should_pause_processing" /\ Overheated) =>
        /\ result[1] = TRUE <=> (status_info.cpu_temp > 0 /\ status_info.gpu_temp > 0)
        /\ result[1] = FALSE => (status_info.status = "error" /\ result[2] # "")

\* a CPU at its critical threshold did not pause because the GPU read 0
C34_Witness ==
    /\ op = "should_pause_processing"
    /\ status_info.cpu_temp >= CPU_TEMP_CRITICAL
    /\ status_info.gpu_temp <= 0
    /\ ~status_info.cached
    /\ result[1] = FALSE

\* ------------------------------------------------ the Linux CPU fallback chain
\* C35: on Linux, when the thermal-zone command writes nothing to stderr but
\* its output does not parse, the lm_sensors command is tried, so a number it
\* gives is the value returned and stored.
C35_UnparsedOutputTriesSensors ==
    (/\ platform = "Linux"
     /\ cpu_read_log.steps # <<>>
     /\ cpu_read_log.steps[1].kind = "garbage"
     /\ cpu_read_log.steps[2].kind = "value") =>
        /\ cpu_read_log.ret = cpu_read_log.steps[2].v
        /\ last_cpu_temp = cpu_read_log.steps[2].v

\* ------------------------------------------------ the is_connected flag
\* the last connect attempt of a call, "none" when the call made none
LastConnect(trace) ==
    IF ConnectsAt(trace) = {} THEN "none"
    ELSE trace[CHOOSE i \in ConnectsAt(trace) : \A j \in ConnectsAt(trace) : j <= i]

\* C36: an _execute_command call made with is_connected False begins with one
\* connect attempt and executes only if it succeeded; a call made with
\* is_connected True begins with the execution; a call that found the
\* transport dead and failed to reconnect leaves is_connected False, a call
\* whose last connect attempt succeeded leaves it True, and disconnect()
\* leaves it False.
C36_FlagTracksSession ==
    [][/\ (chan_call' = "execute_command" /\ ~chan_raised') =>
             /\ is_connected => chan_trace'[1] \in ExecEvents
             /\ ~is_connected =>
                   /\ chan_trace'[1] \in ConnectEvents
                   /\ chan_trace'[1] # "connect_ok" => Len(chan_trace') = 1
                   /\ chan_trace'[1] = "connect_ok" => chan_trace'[2] \in ExecEvents
             /\ ("transport_dead" \in Range(chan_trace')
                     /\ LastConnect(chan_trace') # "connect_ok") => ~is_connected'
             /\ LastConnect(chan_trace') = "connect_ok" => is_connected'
             /\ (LastConnect(chan_trace') = "none"
                     /\ "transport_dead" \notin Range(chan_trace')) => is_connected'
       /\ chan_call' = "disconnect" => ~is_connected']_vars

\* a call found the transport dead and could not reconnect
C36_Witness ==
    /\ chan_call = "execute_command"
    /\ chan_trace = <<"exec_raise", "transport_dead", "connect_failed">>
    /\ ~is_connected
    /\ connect_total = 2

\* ------------------------------------------------ the configured descriptors
\* the two priority lists the selector can start with, as ConfiguredPriority
\* reads them for the last call
StartupPriorities == { <<cfg[1], cfg[2]>> : cfg \in PriorityConfigs }

\* C37: no select call changes text_api_priority, code_api_priority,
\* default_models or api_base_urls, and a select call without a preferred
\* backend iterates the configured list of its content class, whatever the
\* calls before it preferred.
C37_DescriptorsReadOnly ==
    [][/\ text_api_priority' = text_api_priority
       /\ code_api_priority' = code_api_priority
       /\ default_models' = default_models
       /\ api_base_urls' = api_base_urls
       /\ <<text_api_priority', code_api_priority'>> \in StartupPriorities
       /\ (/\ sel_call'.op = "select"
           /\ ~explicit_override(sel_call'.preferred_api, sel_call'.preferred_model)
           /\ ~Truthy(sel_call'.preferred_api)) =>
               sel_priority' = IF detect_content_type(sel_call'.text) = CONTENT_TYPE_CODE
                               THEN code_api_priority ELSE text_api_priority]_vars

\* a call that moved a preferred backend to the front of its iteration left
\* the configured list in its configured order
C37_Witness ==
    /\ Selected
    /\ sel_call.preferred_api = API_TYPE_LLAMACPP
    /\ sel_call.preferred_model = None
    /\ sel_priority[1] = API_TYPE_LLAMACPP
    /\ ConfiguredPriority[1] # API_TYPE_LLAMACPP
    /\ sel_priority # ConfiguredPriority

\* ------------------------------------------------ the assistant's history
\* C38: after every send_instruction call, however it ended, the history
\* holds at most 20 messages.
C38_HistoryAtMostTwenty ==
    Len(message_history) <= HISTORY_LIMIT

Probing == {"update", "cpu", "gpu", "status"}

\* C31: no two callers have passed the throttle test of the same instance
\* for the same window (the same last_check_time) and are both inside the
\* re-probe.
C31_OneReprobePerWindow ==
    \A t, u \in Threads :
        (/\ t # u
         /\ thr[t].pc \in Probing /\ thr[u].pc \in Probing
         /\ thr[t].monitor = thr[u].monitor) =>
            thr[t].seen # thr[u].seen

\* C32: the (cpu_temp, gpu_temp) of every sample returned, cached or fresh,
\* is the initial pair or a pair one re-probe of that instance read, and the
\* sample's status is the status of that pair.
C32_SamplePairFromOneProbe ==
    thr_sample.status # "none" =>
        /\ <<thr_sample.cpu_temp, thr_sample.gpu_temp>> \in pairs[thr_sample.monitor]
        /\ thr_sample.status = get_status(thr_sample.cpu_temp, thr_sample.gpu_temp)

\* C33: one ServerMonitor at most is ever constructed and every caller of
\* get_server_monitor holds the same instance.
C33_OneMonitor ==
    /\ monitors_made <= 1
    /\ \A t, u \in Threads :
          (thr[t].monitor # 0 /\ thr[u].monitor # 0) => thr[t].monitor = thr[u].monitor

====
